---- MODULE Spec2Model ----
(***************************************************************************)
(* A model of docpup's acquisition pipeline: the URL content fetcher       *)
(* (fetchUrlSource, fetchPage), the title-to-filename synthesizer          *)
(* (stripCommonAffixes, slugify, collision suffixes), the sitemap resolver *)
(* (resolveSitemapUrls), the sitemap URL filter (filterUrls), the git      *)
(* acquisition (sparseCheckoutRepo), the run over all sources              *)
(* (generateDocs) and the HTML preprocessing steps selectContent and       *)
(* rewriteHref.                                                            *)
(*                                                                         *)
(* Strings.  A title or a slug is a sequence of one-character strings.     *)
(* A URL path is a sequence of tokens, each either the separator "/" or a  *)
(* slash-free run of characters (a segment name); a string and its token   *)
(* sequence determine each other, and ===, startsWith(p + "/"), slice and  *)
(* split("/") act on the tokens as they act on the characters.             *)
(***************************************************************************)
EXTENDS Integers, Sequences, FiniteSets, TLC

VARIABLES
    \* ---- filterUrls (one call) ----
    fPc,          \* "in": arguments chosen, "out": filterUrls has returned
    fUrls,        \* the urls argument
    fRules,       \* the paths argument (list of SitemapPathRule)
    fOut,         \* the returned list
    \* ---- resolveSitemapUrls (one call) ----
    smPc,         \* "root": awaiting the root sitemap, "children": awaiting
                  \* Promise.all over the child fetches, "done", "failed", "off"
    smPaths,      \* args.paths (<<>> when omitted or empty)
    smRoot,       \* the root response once it arrived, NoResponse before
    smChildren,   \* childSitemapUrls, as parsed from the index
    smChildResp,  \* per child position: the response it got, NoResponse before
    smResults,    \* per child position: the value its task resolved to
    smCompleted,  \* child positions in the order their fetches completed
    smAllUrls,    \* allUrls
    smOut,        \* the list returned to the caller
    smError,      \* the diagnostic the call rejected with, "" if none
    \* ---- fetchUrlSource (one call) ----
    fuPc,         \* "fetching": awaiting Promise.allSettled, "writing": in the
                  \* phase-3 loop, "done": returned, "failed": threw, "off"
    uniqueUrls,   \* [...new Set(urls)]
    selector,     \* args.selector ("" when omitted)
    concurrency,  \* args.concurrency
    pos,          \* per URL position: "queued" in the limiter, "md" awaiting the
                  \* markdown-negotiated response, "html" awaiting the HTML
                  \* response, "settled"
    requests,     \* per URL position: the requests fetchPage has issued for it
    negResp,      \* per URL position: the answer to the negotiated request
    fetchResults, \* per URL position: what its promise settled to
    pages,        \* pages, in the order phase 1 pushed them
    warnings,     \* warnings
    fileNames,    \* fileNames (slugs, without the ".md")
    writes,       \* the fs.writeFile calls made so far, in order
    files,        \* the output directory: file name -> content
    fuError,      \* the error the call threw, "" if none
    settleOrder,  \* the URL positions in the order their promises settled
    \* ---- sparseCheckoutRepo (one call) ----
    gPc,          \* "setup": preparing the working directory, "refs": choosing
                  \* the candidates, "trying": in the candidate loop,
                  \* "returned", "off"
    gArgs,        \* args: ref (<<>> when omitted) and sourcePaths
    gRemote,      \* the remote: for each reference, whether it can be fetched
                  \* and checked out, and which requested paths it holds
    gDefault,     \* what getDefaultBranch resolved to (NoBranch: null)
    gRefsToTry,   \* refsToTry
    gTried,       \* how many candidates the loop has tried
    gLastError,   \* lastError
    gResult,      \* the value the call resolved to
    gFetched,     \* the references `git fetch --depth=1 origin` was run for
    gSparse,      \* the sparse configuration the setup made
    \* ---- phase 2 of fetchUrlSource on a batch of titles ----
    tPc,          \* "titles": rawTitles taken from the pages, "named", "off"
    tTitles,      \* rawTitles
    tStripped,    \* strippedTitles
    tNames,       \* fileNames (slugs, without the ".md")
    \* ---- generateDocs (one run) ----
    dPc,          \* "running": awaiting Promise.all(tasks), "returned", "threw", "off"
    dRepos,       \* the names of the selected repos, in order
    dConcurrency, \* the limit handed to pLimit
    dTask,        \* per repo: where its task is (queued, tmp, checkout,
                  \* processing, cleanup, done, rejected), and what became
                  \* of the repo (outcome, error)
    dSucceeded,   \* succeeded
    dFailed,      \* failed
    dFailures,    \* failures
    dSummary,     \* the summary returned
    dTempDir,     \* per repo position: the directory fs.mkdtemp gave its task
    dExisting,    \* the temporary directories that exist
    dTouched,     \* which task removed, created or wrote which output path
    \* ---- selectContent (one call) ----
    cPc,          \* "in": arguments chosen, "selected": returned, "off"
    cDoc,         \* the loaded document
    cSelector,    \* the selector argument ("" when omitted)
    cRoot,        \* the element returned
    \* ---- link rewriting of one anchor ----
    hPc,          \* "in": anchor found, "once": rewritten, "twice": the
                  \* rewritten document was preprocessed again, "off"
    hHref,        \* the anchor's href attribute as found
    hOut,         \* the attribute after the first pass
    hAgain,       \* the attribute after the second pass
    \* ---- slugify (one call) ----
    sPc,          \* "in": text chosen, "out": slugify has returned, "off"
    sText,        \* the text argument
    sSlug         \* the returned slug

filterVars == <<fPc, fUrls, fRules, fOut>>

smVars == <<smPc, smPaths, smRoot, smChildren, smChildResp, smResults,
            smCompleted, smAllUrls, smOut, smError>>

fetchVars == <<fuPc, uniqueUrls, selector, concurrency, pos, requests, negResp,
               fetchResults, pages, warnings, fileNames, writes, files, fuError,
               settleOrder>>

gitVars == <<gPc, gArgs, gRemote, gDefault, gRefsToTry, gTried, gLastError, gResult,
             gFetched, gSparse>>

titleVars == <<tPc, tTitles, tStripped, tNames>>

genVars == <<dPc, dRepos, dConcurrency, dTask, dSucceeded, dFailed, dFailures, dSummary,
             dTempDir, dExisting, dTouched>>

selectVars == <<cPc, cDoc, cSelector, cRoot>>

hrefVars == <<hPc, hHref, hOut, hAgain>>

slugVars == <<sPc, sText, sSlug>>

vars == <<filterVars, smVars, fetchVars, gitVars, titleVars, genVars, selectVars, hrefVars, slugVars>>

\* --------------------------------------------------------------------------
\* Generic sequence helpers
\* --------------------------------------------------------------------------

Range(s) == {s[i] : i \in 1..Len(s)}

\* s.slice(from0, to0) with 0-based, end-exclusive indices
Slice(s, from0, to0) ==
    IF to0 <= from0 THEN <<>> ELSE [i \in 1..(to0 - from0) |-> s[from0 + i]]

StartsWith(s, p) == Len(p) <= Len(s) /\ Slice(s, 0, Len(p)) = p

EndsWith(s, p) == Len(p) <= Len(s) /\ Slice(s, Len(s) - Len(p), Len(s)) = p

\* All sequences over S of length 0..n
SeqsUpTo(S, n) == UNION {[1..k -> S] : k \in 0..n}

RECURSIVE Flat(_)
\* Array.prototype.flat() on a list of lists
Flat(ss) == IF ss = <<>> THEN <<>> ELSE Head(ss) \o Flat(Tail(ss))

\* --------------------------------------------------------------------------
\* URLs as filterUrls sees them
\* --------------------------------------------------------------------------

\* A URL string is either one that `new URL(url)` rejects, or one it parses
\* into an origin and a pathname (always beginning with "/").
MalformedUrl == [valid |-> FALSE, pathname |-> <<>>]

Url(p) == [valid |-> TRUE, pathname |-> p]

RECURSIVE TrimLeadingSlashes(_)
\* String.replace(/^\/+/, "")
TrimLeadingSlashes(p) ==
    IF p # <<>> /\ Head(p) = "/" THEN TrimLeadingSlashes(Tail(p)) ELSE p

RECURSIVE TrimTrailingSlashes(_)
\* String.replace(/\/+$/, "")
TrimTrailingSlashes(p) ==
    IF p # <<>> /\ p[Len(p)] = "/"
    THEN TrimTrailingSlashes(SubSeq(p, 1, Len(p) - 1))
    ELSE p

normalizePath(pathname) == TrimTrailingSlashes(TrimLeadingSlashes(pathname))

\* relative.split("/").filter(Boolean): the non-empty segments
Segments(p) == SelectSeq(p, LAMBDA t : t # "/")

\* The body of the `for (const rule of rules)` loop for one rule:
\* "keep" (return true) or "next" (continue / fall through to the next rule).
RuleVerdict(normalized, rule) ==
    IF normalized = rule.prefix THEN "keep"
    ELSE IF ~StartsWith(normalized, rule.prefix \o <<"/">>) THEN "next"
    ELSE LET relative == Slice(normalized, Len(rule.prefix) + 1, Len(normalized))
             segments == Segments(relative)
         IN  IF Len(segments) = 0 THEN "keep"
             ELSE IF Len(segments) = 1 THEN "keep"
             ELSE IF segments[1] \in rule.subs THEN "keep"
             ELSE "next"

\* The predicate handed to urls.filter(...)
UrlMatches(url, rules) ==
    /\ url.valid
    /\ \E i \in 1..Len(rules) : RuleVerdict(normalizePath(url.pathname), rules[i]) = "keep"

\* paths.map(p => ({prefix: normalizePath(p.prefix), subs: new Set(p.subs ?? [])}))
NormalizeRules(paths) ==
    [i \in 1..Len(paths) |->
        [prefix |-> normalizePath(paths[i].prefix), subs |-> paths[i].subs]]

\* A filterUrls that lost its early return for an empty rule list.
filterUrlsNoEarlyReturn(urls, paths) ==
    SelectSeq(urls, LAMBDA u : UrlMatches(u, NormalizeRules(paths)))

\* A filterUrls whose predicate looks at the position too and never keeps
\* the first element it is given.
filterUrlsSkippingFirst(urls, paths) ==
    IF Len(paths) = 0 THEN urls
    ELSE SelectSeq(Slice(urls, 1, Len(urls)), LAMBDA u : UrlMatches(u, NormalizeRules(paths)))

filterUrls(urls, paths) ==
    IF Len(paths) = 0 THEN urls
    ELSE SelectSeq(urls, LAMBDA u : UrlMatches(u, NormalizeRules(paths)))

\* --------------------------------------------------------------------------
\* Specification SpecFilter: one call of filterUrls on drawn arguments
\* --------------------------------------------------------------------------

MaxFilterUrls == 3
MaxRules == 2

FilterPaths ==
    { <<"/">>,
      <<"/", "api">>,
      <<"/", "api", "/">>,
      <<"/", "api", "/", "errors">>,
      <<"/", "api", "/", "sdks", "/", "go">>,
      <<"/", "api", "/", "skills", "/", "new">>,
      <<"/", "apis", "/", "x">>,
      <<"/", "guides", "/", "intro">> }

FilterUrlPool == {MalformedUrl} \cup {Url(p) : p \in FilterPaths}

RulePool ==
    { [prefix |-> <<"api">>, subs |-> {}],
      [prefix |-> <<"/", "api", "/">>, subs |-> {"sdks"}],
      [prefix |-> <<"guides">>, subs |-> {}],
      [prefix |-> <<"/">>, subs |-> {}] }

\* The sitemap of tests/sitemap.test.ts: nine URLs under /docs/en/api and
\* /docs/en/guides, and the rule {prefix: "docs/en/api", subs: ["sdks"]}.
ApiPath(rest) == <<"/", "docs", "/", "en", "/", "api">> \o rest

NineUrls ==
    << Url(ApiPath(<<"/", "overview">>)),
       Url(ApiPath(<<"/", "errors">>)),
       Url(ApiPath(<<"/", "beta-headers">>)),
       Url(ApiPath(<<"/", "sdks", "/", "python">>)),
       Url(ApiPath(<<"/", "sdks", "/", "typescript">>)),
       Url(ApiPath(<<"/", "sdks", "/", "go">>)),
       Url(ApiPath(<<"/", "skills", "/", "create-skill">>)),
       Url(ApiPath(<<"/", "skills", "/", "list-skills">>)),
       Url(<<"/", "docs", "/", "en", "/", "guides", "/", "getting-started">>) >>

NineUrlRules == << [prefix |-> <<"docs", "/", "en", "/", "api">>, subs |-> {"sdks"}] >>

\* The state of a component that takes no part in the specification at hand.
FilterOff ==
    fPc = "off" /\ fUrls = <<>> /\ fRules = <<>> /\ fOut = <<>>

FilterArgs ==
    /\ fPc = "in"
    /\ \/ /\ fUrls \in SeqsUpTo(FilterUrlPool, MaxFilterUrls)
          /\ fRules \in SeqsUpTo(RulePool, MaxRules)
       \/ /\ fUrls = NineUrls
          /\ fRules = NineUrlRules
    /\ fOut = <<>>

ApplyFilter ==
    /\ fPc = "in"
    /\ fOut' = filterUrls(fUrls, fRules)
    /\ fPc' = "out"
    /\ UNCHANGED <<fUrls, fRules>>
    /\ UNCHANGED <<smVars, fetchVars, gitVars, titleVars, genVars, selectVars, hrefVars, slugVars>>

\* The caller hands the list it got back to filterUrls again, with the same rules.
ReapplyFilter ==
    /\ fPc = "out"
    /\ fOut' = filterUrls(fOut, fRules)
    /\ fPc' = "again"
    /\ UNCHANGED <<fUrls, fRules>>
    /\ UNCHANGED <<smVars, fetchVars, gitVars, titleVars, genVars, selectVars, hrefVars, slugVars>>

\* --------------------------------------------------------------------------
\* Title-to-filename synthesizer: stripCommonAffixes, slugify
\* --------------------------------------------------------------------------

UpperCase == <<"A", "B", "C", "D", "E", "F", "G", "H", "I", "J", "K", "L", "M",
               "N", "O", "P", "Q", "R", "S", "T", "U", "V", "W", "X", "Y", "Z">>

LowerCase == <<"a", "b", "c", "d", "e", "f", "g", "h", "i", "j", "k", "l", "m",
               "n", "o", "p", "q", "r", "s", "t", "u", "v", "w", "x", "y", "z">>

DigitChars == <<"0", "1", "2", "3", "4", "5", "6", "7", "8", "9">>

\* Other characters of the model's titles, with their UTF-16 code units.
OtherChars == <<" ", "#", "-", ".", ":", "|", "\\u2013", "\\u2014">>

OtherCodes == <<32, 35, 45, 46, 58, 124, 8211, 8212>>

IndexIn(table, c) == CHOOSE i \in 1..Len(table) : table[i] = c

\* The UTF-16 code unit of a character, which Array.prototype.sort compares.
Code(c) ==
    IF c \in Range(UpperCase) THEN 64 + IndexIn(UpperCase, c)
    ELSE IF c \in Range(LowerCase) THEN 96 + IndexIn(LowerCase, c)
    ELSE IF c \in Range(DigitChars) THEN 47 + IndexIn(DigitChars, c)
    ELSE OtherCodes[IndexIn(OtherChars, c)]

RECURSIVE LexLess(_, _)
\* a < b as JavaScript compares strings
LexLess(a, b) ==
    IF b = <<>> THEN FALSE
    ELSE IF a = <<>> THEN TRUE
    ELSE IF Head(a) = Head(b) THEN LexLess(Tail(a), Tail(b))
    ELSE Code(Head(a)) < Code(Head(b))

\* sorted[0] and sorted[sorted.length - 1] of [...strings].sort()
SortedFirst(strings) ==
    CHOOSE s \in Range(strings) : \A t \in Range(strings) : ~LexLess(t, s)

SortedLast(strings) ==
    CHOOSE s \in Range(strings) : \A t \in Range(strings) : ~LexLess(s, t)

Reverse(s) == [i \in 1..Len(s) |-> s[Len(s) + 1 - i]]

RECURSIVE CommonLen(_, _)
\* let i = 0; while (i < first.length && first[i] === last[i]) i++
CommonLen(first, last) ==
    IF first # <<>> /\ last # <<>> /\ Head(first) = Head(last)
    THEN 1 + CommonLen(Tail(first), Tail(last))
    ELSE 0

\* The 0-based positions at which sep occurs in s
Occurrences(s, sep) ==
    {i \in 0..(Len(s) - Len(sep)) : Slice(s, i, i + Len(sep)) = sep}

Maximum(S) == CHOOSE x \in S : \A y \in S : y <= x

Minimum(S) == CHOOSE x \in S : \A y \in S : x <= y

lastIndexOf(s, sep) == IF Occurrences(s, sep) = {} THEN -1 ELSE Maximum(Occurrences(s, sep))

indexOf(s, sep) == IF Occurrences(s, sep) = {} THEN -1 ELSE Minimum(Occurrences(s, sep))

separators ==
    << <<" ", "-", " ">>, <<" ", "|", " ">>, <<":", " ">>,
       <<" ", "\\u2014", " ">>, <<" ", "\\u2013", " ">> >>

RECURSIVE LongestCandidate(_, _)
\* for (const sep of separators) { ...; if (candidate.length > best.length) best = candidate }
\* over the candidates of the separators in order ("" for a separator not found)
LongestCandidate(candidates, best) ==
    IF candidates = <<>> THEN best
    ELSE LongestCandidate(Tail(candidates),
                          IF Len(Head(candidates)) > Len(best) THEN Head(candidates) ELSE best)

findCommonPrefix(strings) ==
    IF Len(strings) <= 1 THEN <<>>
    ELSE LET first == SortedFirst(strings)
             last == SortedLast(strings)
             raw == Slice(first, 0, CommonLen(first, last))
             candidate(sep) ==
                 IF lastIndexOf(raw, sep) >= 0
                 THEN Slice(raw, 0, lastIndexOf(raw, sep) + Len(sep))
                 ELSE <<>>
         IN  LongestCandidate([k \in 1..Len(separators) |-> candidate(separators[k])], <<>>)

findCommonSuffix(strings) ==
    IF Len(strings) <= 1 THEN <<>>
    ELSE LET reversed == [k \in 1..Len(strings) |-> Reverse(strings[k])]
             first == SortedFirst(reversed)
             last == SortedLast(reversed)
             raw == Reverse(Slice(first, 0, CommonLen(first, last)))
             candidate(sep) ==
                 IF indexOf(raw, sep) >= 0
                 THEN Slice(raw, indexOf(raw, sep), Len(raw))
                 ELSE <<>>
         IN  LongestCandidate([k \in 1..Len(separators) |-> candidate(separators[k])], <<>>)

RECURSIVE TrimSpacesLeft(_)
TrimSpacesLeft(t) == IF t # <<>> /\ Head(t) = " " THEN TrimSpacesLeft(Tail(t)) ELSE t

\* String.prototype.trim on a title
TrimSpaces(t) == Reverse(TrimSpacesLeft(Reverse(TrimSpacesLeft(t))))

\* A stripCommonAffixes that returns a title emptied by the stripping as it is.
stripCommonAffixesNoFallback(titles) ==
    IF Len(titles) <= 1 THEN titles
    ELSE LET prefix == findCommonPrefix(titles)
             suffix == findCommonSuffix(titles)
             strip(t) ==
                 LET r1 == IF prefix # <<>> /\ StartsWith(t, prefix)
                           THEN Slice(t, Len(prefix), Len(t)) ELSE t
                     r2 == IF suffix # <<>> /\ EndsWith(r1, suffix)
                           THEN Slice(r1, 0, Len(r1) - Len(suffix)) ELSE r1
                 IN  TrimSpaces(r2)
         IN  [k \in 1..Len(titles) |-> strip(titles[k])]

stripCommonAffixes(titles) ==
    IF Len(titles) <= 1 THEN titles
    ELSE LET prefix == findCommonPrefix(titles)
             suffix == findCommonSuffix(titles)
             strip(t) ==
                 LET r1 == IF prefix # <<>> /\ StartsWith(t, prefix)
                           THEN Slice(t, Len(prefix), Len(t)) ELSE t
                     r2 == IF suffix # <<>> /\ EndsWith(r1, suffix)
                           THEN Slice(r1, 0, Len(r1) - Len(suffix)) ELSE r1
                 IN  IF TrimSpaces(r2) # <<>> THEN TrimSpaces(r2) ELSE t
         IN  [k \in 1..Len(titles) |-> strip(titles[k])]

\* String.prototype.toLowerCase, on the ASCII letters
ToLowerChar(c) == IF c \in Range(UpperCase) THEN LowerCase[IndexIn(UpperCase, c)] ELSE c

toLowerCase(s) == [i \in 1..Len(s) |-> ToLowerChar(s[i])]

IsSlugChar(c) == c \in Range(LowerCase) \cup Range(DigitChars)

RECURSIVE CollapseNonAlnum(_)
\* .replace(/[^a-z0-9]+/g, "-")
CollapseNonAlnum(s) ==
    IF s = <<>> THEN <<>>
    ELSE IF IsSlugChar(Head(s)) THEN <<Head(s)>> \o CollapseNonAlnum(Tail(s))
    ELSE IF Len(s) >= 2 /\ ~IsSlugChar(s[2]) THEN CollapseNonAlnum(Tail(s))
    ELSE <<"-">> \o CollapseNonAlnum(Tail(s))

RECURSIVE TrimHyphensLeft(_)
TrimHyphensLeft(s) == IF s # <<>> /\ Head(s) = "-" THEN TrimHyphensLeft(Tail(s)) ELSE s

\* .replace(/^-+|-+$/g, "")
TrimHyphens(s) == Reverse(TrimHyphensLeft(Reverse(TrimHyphensLeft(s))))

SlugMaxLen == 100

PageSlug == <<"p", "a", "g", "e">>

slugify(text) ==
    LET cut == Slice(TrimHyphens(CollapseNonAlnum(toLowerCase(text))), 0,
                     IF Len(TrimHyphens(CollapseNonAlnum(toLowerCase(text)))) < SlugMaxLen
                     THEN Len(TrimHyphens(CollapseNonAlnum(toLowerCase(text))))
                     ELSE SlugMaxLen)
    IN  IF cut # <<>> THEN cut ELSE PageSlug

RECURSIVE DecimalDigits(_)
\* `${i}` for an index i >= 0
DecimalDigits(i) ==
    IF i < 10 THEN <<DigitChars[i + 1]>>
    ELSE DecimalDigits(i \div 10) \o <<DigitChars[(i % 10) + 1]>>

RECURSIVE AssignNamesOneBased(_, _, _)
\* The same with the suffix counting positions from one.
AssignNamesOneBased(titles, k, usedNames) ==
    IF k > Len(titles) THEN <<>>
    ELSE LET slug == slugify(titles[k])
             name == IF slug \in usedNames
                     THEN slug \o <<"-">> \o DecimalDigits(k)
                     ELSE slug
         IN  <<name>> \o AssignNamesOneBased(titles, k + 1, usedNames \cup {name})

RECURSIVE AssignNames(_, _, _)
\* strippedTitles.map((title, i) => { ... }) with usedNames threaded through:
\* the slugs (without ".md") of the titles from position k (1-based) on.
AssignNames(titles, k, usedNames) ==
    IF k > Len(titles) THEN <<>>
    ELSE LET slug == slugify(titles[k])
             name == IF slug \in usedNames
                     THEN slug \o <<"-">> \o DecimalDigits(k - 1)
                     ELSE slug
         IN  <<name>> \o AssignNames(titles, k + 1, usedNames \cup {name})

\* Phase 2: the file names (without the ".md" every one of them gets)
fileNamesOf(rawTitles) == AssignNames(stripCommonAffixes(rawTitles), 1, {})

\* --------------------------------------------------------------------------
\* Specification SpecTitles: phase 2 of fetchUrlSource on a batch of titles
\* --------------------------------------------------------------------------

MaxTitles == 4

\* Page titles as extractTitle and extractTitleFromMarkdown give them:
\* trimmed and non-empty.
TitlePool ==
    { <<"A">>,
      <<"A", "-", "1">>,
      <<"A", " ", "-", " ", "D">>,
      <<"B", " ", "-", " ", "D">>,
      <<"D", " ", "-", " ", "A">>,
      <<"D", " ", "-", " ", "B">>,
      <<":", " ", "D">>,
      <<"A", ":", " ", "D">>,
      <<"A", " ", "|", " ", "D">>,
      <<"B", " ", "|", " ", "D">> }

ExampleTitles ==
    << <<"O", "v", "e", "r", "v", "i", "e", "w", " ", "-", " ", "X", " ", "D", "o", "c", "s">>,
       <<"Q", "u", "i", "c", "k", "s", "t", "a", "r", "t", " ", "-", " ", "X", " ", "D", "o", "c", "s">>,
       <<"G", "u", "i", "d", "e", " ", "-", " ", "X", " ", "D", "o", "c", "s">> >>

ExampleStripped ==
    << <<"O", "v", "e", "r", "v", "i", "e", "w">>, <<"Q", "u", "i", "c", "k", "s", "t", "a", "r", "t">>, <<"G", "u", "i", "d", "e">> >>

TitlesOff ==
    tPc = "off" /\ tTitles = <<>> /\ tStripped = <<>> /\ tNames = <<>>

\* const rawTitles = pages.map((p) => p.title)
TitlesTaken ==
    /\ tPc = "titles"
    /\ \/ tTitles \in SeqsUpTo(TitlePool, MaxTitles)
       \/ tTitles = ExampleTitles
    /\ tStripped = <<>>
    /\ tNames = <<>>

\* Lines 213-223: strip the common affixes, then name the pages in order.
NameTitles ==
    /\ tPc = "titles"
    /\ tStripped' = stripCommonAffixes(tTitles)
    /\ tNames' = AssignNames(tStripped', 1, {})
    /\ tPc' = "named"
    /\ UNCHANGED tTitles
    /\ UNCHANGED <<filterVars, smVars, fetchVars, gitVars, genVars, selectVars, hrefVars, slugVars>>

\* --------------------------------------------------------------------------
\* URL content fetcher: fetchMarkdown, fetchHtml, fetchPage, fetchUrlSource
\* --------------------------------------------------------------------------

\* A URL to fetch: the URL up to the last path segment's extension, that
\* extension ("" if none), whether the path ends in "/", and the query
\* string and fragment.
FetchUrl(stem, ext, slash, tail) ==
    [stem |-> stem, ext |-> ext, slash |-> slash, tail |-> tail]

NoUrl == [stem |-> "", ext |-> "", slash |-> FALSE, tail |-> ""]

\* toMdUrl, from the specification and its tests: null (NoUrl) for a path
\* that already ends in .md; otherwise the trailing slash dropped and a
\* trailing .html/.htm replaced by .md, or .md appended; query and fragment kept.
toMdUrl(u) ==
    IF u.ext = ".md" /\ ~u.slash THEN NoUrl
    ELSE [stem |-> u.stem,
          ext |-> IF u.ext \in {"", ".html", ".htm"} THEN ".md" ELSE u.ext \o ".md",
          slash |-> FALSE,
          tail |-> u.tail]

\* A markdown text: the text of its first "# " heading line (<<>> if it has
\* none), the rest of it, and whether navigation chrome shows in it.
MdText(h1, body) == [h1 |-> h1, body |-> body, nav |-> FALSE]

EmptyText == MdText(<<>>, "")

\* An HTML document: its <title> text and, for each selector of interest,
\* the first element matching it (NoElement if none).  An element has a
\* heading, body text and possibly nav/header/footer/script/style inside.
NoElement == [present |-> FALSE, h1 |-> <<>>, body |-> "", chrome |-> FALSE]

Element(h1, body, chrome) == [present |-> TRUE, h1 |-> h1, body |-> body, chrome |-> chrome]

candidates == <<"main", "article", "#content", ".content", ".document", "body">>

CustomSelector == ".docs-content"

NoDoc == [title |-> <<>>, elements |-> [c \in {} |-> NoElement]]

\* ---- responses ----
Rejected == [kind |-> "throw", ok |-> FALSE, status |-> 0, ctype |-> "",
             text |-> EmptyText, doc |-> NoDoc]

Status(code) == [kind |-> "response", ok |-> FALSE, status |-> code, ctype |-> "",
                 text |-> EmptyText, doc |-> NoDoc]

MarkdownResponse(ctype, text) ==
    [kind |-> "response", ok |-> TRUE, status |-> 200, ctype |-> ctype,
     text |-> text, doc |-> NoDoc]

HtmlResponse(doc) ==
    [kind |-> "response", ok |-> TRUE, status |-> 200, ctype |-> "text/html",
     text |-> EmptyText, doc |-> doc]

NotYet == [kind |-> "none", ok |-> FALSE, status |-> 0, ctype |-> "",
           text |-> EmptyText, doc |-> NoDoc]

\* contentType.includes("text/markdown") || contentType.includes("text/x-markdown")
DeclaresMarkdown(ctype) ==
    ctype \in {"text/markdown", "text/markdown; charset=utf-8", "text/x-markdown"}

\* fetchMarkdown: "threw" (fetch rejected), "null", or "text" with the body.
fetchMarkdown(resp) ==
    IF resp.kind = "throw" THEN [outcome |-> "threw", text |-> EmptyText]
    ELSE IF ~resp.ok THEN [outcome |-> "null", text |-> EmptyText]
    ELSE IF ~DeclaresMarkdown(resp.ctype) THEN [outcome |-> "null", text |-> EmptyText]
    ELSE [outcome |-> "text", text |-> resp.text]

\* fetchHtml: "threw" with its error, or "text" with the document.
fetchHtml(resp) ==
    IF resp.kind = "throw" THEN [outcome |-> "threw", error |-> "network error", doc |-> NoDoc]
    ELSE IF ~resp.ok THEN [outcome |-> "threw", error |-> "HTTP status", doc |-> NoDoc]
    ELSE [outcome |-> "text", error |-> "", doc |-> resp.doc]

Untitled == <<"u", "n", "t", "i", "t", "l", "e", "d">>

extractTitleFromMarkdown(md) ==
    IF TrimSpaces(md.h1) # <<>> THEN TrimSpaces(md.h1) ELSE Untitled

extractTitle(doc) ==
    IF TrimSpaces(doc.title) # <<>> THEN TrimSpaces(doc.title) ELSE Untitled

MarkdownPage(url, md) ==
    [url |-> url, title |-> extractTitleFromMarkdown(md), kind |-> "markdown",
     markdown |-> md, doc |-> NoDoc]

HtmlPage(url, doc) ==
    [url |-> url, title |-> extractTitle(doc), kind |-> "html",
     markdown |-> EmptyText, doc |-> doc]

NoPage == [url |-> NoUrl, title |-> <<>>, kind |-> "none", markdown |-> EmptyText, doc |-> NoDoc]

\* `if (md)`: a non-empty string
Truthy(md) == md # EmptyText

\* ---- the Normalizer as fetchUrlSource uses it ----
Matches(doc, sel) == sel \in DOMAIN doc.elements /\ doc.elements[sel].present

RECURSIVE FirstCandidate(_, _)
FirstCandidate(doc, cands) ==
    IF cands = <<>> THEN doc.elements["body"]
    ELSE IF Matches(doc, Head(cands)) THEN doc.elements[Head(cands)]
    ELSE FirstCandidate(doc, Tail(cands))

\* A selectContent for which a selector that matches nothing means the body.
selectContentOrBody(doc, sel) ==
    IF sel # "" /\ ~Matches(doc, sel) THEN doc.elements["body"]
    ELSE IF sel # "" THEN doc.elements[sel]
    ELSE FirstCandidate(doc, candidates)

selectContent(doc, sel) ==
    IF sel # "" /\ Matches(doc, sel) THEN doc.elements[sel]
    ELSE FirstCandidate(doc, candidates)

\* selection.find("script,style,nav,header,footer").remove()
removeChrome(el) == [el EXCEPT !.chrome = FALSE]

\* turndown.turndown(selection.html()): headings in ATX style
turndown(el) == [h1 |-> el.h1, body |-> el.body, nav |-> el.chrome]

\* A conversion that heads the converted page with its title.
markdownOfTitled(page, sel) ==
    IF page.kind = "markdown" THEN page.markdown
    ELSE [h1 |-> page.title,
          body |-> selectContent(page.doc, sel).body,
          nav |-> FALSE]

\* The phase-3 conversion of one page to the markdown that is written
markdownOf(page, sel) ==
    IF page.kind = "markdown" THEN page.markdown
    ELSE turndown(removeChrome(selectContent(page.doc, sel)))

\* ---- settle-all bookkeeping ----
Pending == [status |-> "pending", value |-> NoPage, reason |-> ""]

Fulfilled(page) == [status |-> "fulfilled", value |-> page, reason |-> ""]

Failed(reason) == [status |-> "rejected", value |-> NoPage, reason |-> reason]

\* Pages pushed as their fetches completed.
CollectPagesAsSettled(results) ==
    LET order == SelectSeq(settleOrder, LAMBDA i : results[i].status = "fulfilled")
    IN  [k \in 1..Len(order) |-> results[order[k]].value]

\* for (i...) { if fulfilled pages.push(value) else warnings.push(...) }
RECURSIVE CollectPages(_)
CollectPages(results) ==
    IF results = <<>> THEN <<>>
    ELSE (IF Head(results).status = "fulfilled" THEN <<Head(results).value>> ELSE <<>>)
         \o CollectPages(Tail(results))

RECURSIVE CollectWarnings(_, _)
CollectWarnings(results, urls) ==
    IF results = <<>> THEN <<>>
    ELSE (IF Head(results).status = "fulfilled" THEN <<>>
          ELSE << [url |-> Head(urls), reason |-> Head(results).reason] >>)
         \o CollectWarnings(Tail(results), Tail(urls))

AllFetchesFailed == "All URL fetches failed"

\* `if (pages.length === 0) throw`, without the throw
NeverThrows(ps) == FALSE

\* if (pages.length === 0) throw new Error(`All URL fetches failed for ${name}`)
ThrowsAllFailed(ps) == Len(ps) = 0

RECURSIVE Dedup(_, _)
\* [...new Set(urls)]: first occurrences, in order
Dedup(urls, seen) ==
    IF urls = <<>> THEN <<>>
    ELSE IF Head(urls) \in seen THEN Dedup(Tail(urls), seen)
    ELSE <<Head(urls)>> \o Dedup(Tail(urls), seen \cup {Head(urls)})

\* p-limit: the tasks run in queue order, at most `limit` at a time; when one
\* settles the next queued one starts.  The positions after task i settled:
InFlight(p) == {i \in 1..Len(p) : p[i] \in {"md", "html"}}

Queued(p) == {i \in 1..Len(p) : p[i] = "queued"}

\* A limiter that starts the next queued task whenever it is asked.
StartQueuedIgnoringLimit(p, limit) ==
    IF Queued(p) # {} THEN [p EXCEPT ![Minimum(Queued(p))] = "md"] ELSE p

StartQueued(p, limit) ==
    IF Queued(p) # {} /\ Cardinality(InFlight(p)) < limit
    THEN [p EXCEPT ![Minimum(Queued(p))] = "md"]
    ELSE p

NegotiatedRequest(url) == [accept |-> "text/markdown", url |-> url]

HtmlRequest(url) == [accept |-> "text/html", url |-> url]

\* The request log once every task the limiter has started issued its first request
LogStarts(reqs, p, urls) ==
    [i \in 1..Len(urls) |->
        IF p[i] = "md" /\ reqs[i] = <<>> THEN <<NegotiatedRequest(urls[i])>> ELSE reqs[i]]

\* ---- inputs ----
MaxUrls == 3
MaxConcurrency == 2

UrlPool ==
    { FetchUrl("https://example.com/docs/overview", "", FALSE, "?v=2#section"),
      FetchUrl("https://example.com/docs/guide", ".html", FALSE, ""),
      FetchUrl("https://example.com/docs/ref", ".md", FALSE, "") }

TitleA == <<"A">>
TitleA2 == <<"A", "-", "2">>
TitleAD == <<"A", " ", "-", " ", "D">>
TitleA2D == <<" ", "A", "-", "2", " ", "-", " ", "D">>
HeadingB == <<"B">>

NegotiatedResponses ==
    { Rejected,
      Status(404),
      HtmlResponse(NoDoc),
      MarkdownResponse("text/markdown", EmptyText),
      MarkdownResponse("text/markdown", MdText(TitleA, "first")),
      MarkdownResponse("text/x-markdown", MdText(TitleA2, "second")) }

DocElements(custom, main, body) ==
    [c \in {CustomSelector} \cup Range(candidates) |->
        IF c = CustomSelector THEN custom
        ELSE IF c = "main" THEN main
        ELSE IF c = "body" THEN body
        ELSE NoElement]

HtmlDocs ==
    { [title |-> TitleAD,
       elements |-> DocElements(NoElement,
                                Element(HeadingB, "html content", FALSE),
                                Element(HeadingB, "html content", TRUE))],
      [title |-> TitleA2D,
       elements |-> DocElements(Element(TitleA2, "target content", TRUE),
                                Element(<<>>, "main content", FALSE),
                                Element(<<>>, "main content", TRUE))] }

HtmlResponses == {Rejected, Status(500)} \cup {HtmlResponse(d) : d \in HtmlDocs}

FetchOff ==
    /\ fuPc = "off"
    /\ uniqueUrls = <<>>
    /\ selector = ""
    /\ concurrency = 1
    /\ pos = <<>>
    /\ requests = <<>>
    /\ negResp = <<>>
    /\ fetchResults = <<>>
    /\ pages = <<>>
    /\ warnings = <<>>
    /\ fileNames = <<>>
    /\ writes = <<>>
    /\ files = [n \in {} |-> EmptyText]
    /\ fuError = ""
    /\ settleOrder = <<>>

\* fetchUrlSource(args) has run up to `await Promise.allSettled(...)`: the
\* URLs are deduplicated, every task is handed to the limiter, and the
\* limiter has started the first `concurrency` of them.
FetchCalled ==
    /\ fuPc = "fetching"
    /\ \E urls \in SeqsUpTo(UrlPool, MaxUrls) : uniqueUrls = Dedup(urls, {})
    /\ selector \in {"", CustomSelector}
    /\ concurrency \in 1..MaxConcurrency
    /\ pos = [i \in 1..Len(uniqueUrls) |-> IF i <= concurrency THEN "md" ELSE "queued"]
    /\ requests = LogStarts([i \in 1..Len(uniqueUrls) |-> <<>>], pos, uniqueUrls)
    /\ negResp = [i \in 1..Len(uniqueUrls) |-> NotYet]
    /\ fetchResults = [i \in 1..Len(uniqueUrls) |-> Pending]
    /\ pages = <<>>
    /\ warnings = <<>>
    /\ fileNames = <<>>
    /\ writes = <<>>
    /\ files = [n \in {} |-> EmptyText]
    /\ fuError = ""
    /\ settleOrder = <<>>

\* fetchPage's next position for URL i after the negotiated request ended
\* with `resp` (lines 96-102): settle, or go on to the HTML request.
AfterNegotiated(url, resp) ==
    LET md == fetchMarkdown(resp)
    IN  IF md.outcome = "threw"
        THEN [pos |-> "settled", result |-> Failed("network error"), next |-> <<>>]
        ELSE IF md.outcome = "text" /\ Truthy(md.text)
        THEN [pos |-> "settled", result |-> Fulfilled(MarkdownPage(url, md.text)), next |-> <<>>]
        ELSE [pos |-> "html", result |-> Pending, next |-> <<HtmlRequest(url)>>]

\* The markdown-negotiated request of URL i ends (line 96).
NegotiatedSettles(i) ==
    /\ fuPc = "fetching"
    /\ pos[i] = "md"
    /\ \E resp \in NegotiatedResponses :
        LET a == AfterNegotiated(uniqueUrls[i], resp)
            p == StartQueued([pos EXCEPT ![i] = a.pos], concurrency)
        IN  /\ negResp' = [negResp EXCEPT ![i] = resp]
            /\ fetchResults' = [fetchResults EXCEPT ![i] = a.result]
            /\ pos' = p
            /\ requests' = LogStarts([requests EXCEPT ![i] = @ \o a.next], p, uniqueUrls)
            /\ settleOrder' = IF a.pos = "settled" THEN Append(settleOrder, i)
                               ELSE settleOrder
    /\ UNCHANGED <<fuPc, uniqueUrls, selector, concurrency, pages, warnings,
                   fileNames, writes, files, fuError>>
    /\ UNCHANGED <<filterVars, smVars, gitVars, titleVars, genVars, selectVars, hrefVars, slugVars>>

\* The HTML request of URL i ends (lines 102-105).
HtmlSettles(i) ==
    /\ fuPc = "fetching"
    /\ pos[i] = "html"
    /\ \E resp \in HtmlResponses :
        LET h == fetchHtml(resp)
            p == StartQueued([pos EXCEPT ![i] = "settled"], concurrency)
        IN  /\ fetchResults' = [fetchResults EXCEPT ![i] =
                                   IF h.outcome = "threw" THEN Failed(h.error)
                                   ELSE Fulfilled(HtmlPage(uniqueUrls[i], h.doc))]
            /\ pos' = p
            /\ requests' = LogStarts(requests, p, uniqueUrls)
            /\ settleOrder' = Append(settleOrder, i)
    /\ UNCHANGED <<fuPc, uniqueUrls, selector, concurrency, negResp, pages, warnings,
                   fileNames, writes, files, fuError>>
    /\ UNCHANGED <<filterVars, smVars, gitVars, titleVars, genVars, selectVars, hrefVars, slugVars>>

\* Promise.allSettled has resolved: partition the results, warn, throw if
\* no page was fetched, else compute the file names (lines 192-223).
AllSettled ==
    /\ fuPc = "fetching"
    /\ \A i \in 1..Len(uniqueUrls) : pos[i] = "settled"
    /\ pages' = CollectPages(fetchResults)
    /\ warnings' = CollectWarnings(fetchResults, uniqueUrls)
    /\ IF ThrowsAllFailed(pages')
       THEN /\ fuPc' = "failed"
            /\ fuError' = AllFetchesFailed
            /\ UNCHANGED fileNames
       ELSE /\ fuPc' = "writing"
            /\ fileNames' = fileNamesOf([k \in 1..Len(pages') |-> pages'[k].title])
            /\ UNCHANGED fuError
    /\ UNCHANGED <<uniqueUrls, selector, concurrency, pos, requests, negResp,
                   fetchResults, writes, files, settleOrder>>
    /\ UNCHANGED <<filterVars, smVars, gitVars, titleVars, genVars, selectVars, hrefVars, slugVars>>

\* fs.writeFile(path.join(outputDir, name), markdown): creates or replaces
WriteFile(dir, name, content) ==
    [n \in DOMAIN dir \cup {name} |-> IF n = name THEN content ELSE dir[n]]

\* One turn of the phase-3 loop (lines 226-241); the call returns after the
\* last one.
WriteNext ==
    /\ fuPc = "writing"
    /\ LET i == Len(writes) + 1
           markdown == markdownOf(pages[i], selector)
       IN  /\ i <= Len(pages)
           /\ writes' = Append(writes, [name |-> fileNames[i], content |-> markdown])
           /\ files' = WriteFile(files, fileNames[i], markdown)
           /\ fuPc' = IF i = Len(pages) THEN "done" ELSE "writing"
    /\ UNCHANGED <<uniqueUrls, selector, concurrency, pos, requests, negResp,
                   fetchResults, pages, warnings, fileNames, fuError, settleOrder>>
    /\ UNCHANGED <<filterVars, smVars, gitVars, titleVars, genVars, selectVars, hrefVars, slugVars>>

\* --------------------------------------------------------------------------
\* Specification SpecSelect: one call of selectContent on a drawn document
\* --------------------------------------------------------------------------

\* The element a selector finds first in a document is named after the selector.
ElementOf(c) == Element(<<c>>, c, TRUE)

\* cheerio.load gives every document a body; any of the other elements may
\* be there or not.
SelectDocs ==
    { [title |-> TitleA,
       elements |-> [c \in {CustomSelector} \cup Range(candidates) |->
                        IF c \in present \cup {"body"} THEN ElementOf(c) ELSE NoElement]] :
      present \in SUBSET ({CustomSelector} \cup Range(candidates)) }

SelectorPool == {"", CustomSelector, "article", "#missing"}

SelectOff ==
    cPc = "off" /\ cDoc = NoDoc /\ cSelector = "" /\ cRoot = NoElement

SelectArgs ==
    /\ cPc = "in"
    /\ cDoc \in SelectDocs
    /\ cSelector \in SelectorPool
    /\ cRoot = NoElement

ApplySelect ==
    /\ cPc = "in"
    /\ cRoot' = selectContent(cDoc, cSelector)
    /\ cPc' = "selected"
    /\ UNCHANGED <<cDoc, cSelector>>
    /\ UNCHANGED <<filterVars, smVars, fetchVars, gitVars, titleVars, genVars, hrefVars, slugVars>>

\* --------------------------------------------------------------------------
\* Specification SpecSlug: one call of slugify on a drawn text
\* --------------------------------------------------------------------------

MaxRunLen == 101

MaxTailLen == 1

\* n times the character c
Run(c, n) == [i \in 1..n |-> c]

\* Texts around the truncation length: a run of one letter between optional
\* punctuation, then an optional separator and an upper-case tail.
SlugTexts ==
    { pre \o Run("a", n) \o mid \o Run("B", m) \o post :
        pre \in {<<>>, <<"-", "#">>},
        n \in 0..MaxRunLen,
        mid \in {<<>>, <<" ">>, <<".", " ">>},
        m \in 0..MaxTailLen,
        post \in {<<>>, <<"|">>} }

SlugOff == sPc = "off" /\ sText = <<>> /\ sSlug = <<>>

SlugArgs == sPc = "in" /\ sText \in SlugTexts /\ sSlug = <<>>

ApplySlugify ==
    /\ sPc = "in"
    /\ sSlug' = slugify(sText)
    /\ sPc' = "out"
    /\ UNCHANGED sText
    /\ UNCHANGED <<filterVars, smVars, fetchVars, gitVars, titleVars, genVars, selectVars, hrefVars>>

\* --------------------------------------------------------------------------
\* Link rewriting: rewriteHref and the anchor loop of runHtmlPreprocess
\* --------------------------------------------------------------------------

\* An href is a sequence of tokens: the characters the code looks for, one
\* run of letters, and the extensions.
NameTokens == {"guide"}

ExtensionTokens == {".html", ".HTM", ".md"}

HrefTokens == {" ", "#", "?", "/", ":"} \cup NameTokens \cup ExtensionTokens

MaxHrefLen == 5

HrefPool == SeqsUpTo(HrefTokens, MaxHrefLen)

\* String.prototype.toLowerCase on the tokens of an href
toLowerCaseHref(h) == [i \in 1..Len(h) |-> IF h[i] = ".HTM" THEN ".htm" ELSE h[i]]

\* /^[a-zA-Z][a-zA-Z0-9+.-]*:/.test(trimmed)
schemeTest(t) ==
    \E k \in 2..Len(t) :
        /\ t[k] = ":"
        /\ t[1] \in NameTokens
        /\ \A j \in 2..(k - 1) : t[j] \in NameTokens \cup ExtensionTokens

NullHref == [null |-> TRUE, value |-> <<>>]

RewrittenHref(v) == [null |-> FALSE, value |-> v]

\* A rewriteHref that compares the extension without lowering the path.
rewriteHrefCaseSensitive(href) ==
    LET trimmed == TrimSpaces(href)
    IN  IF trimmed = <<>> \/ StartsWith(trimmed, <<"#">>) THEN NullHref
        ELSE IF StartsWith(trimmed, <<"/", "/">>) THEN NullHref
        ELSE IF schemeTest(trimmed) THEN NullHref
        ELSE LET hashIndex == indexOf(trimmed, <<"#">>)
                 hash == IF hashIndex >= 0 THEN Slice(trimmed, hashIndex, Len(trimmed)) ELSE <<>>
                 withoutHash == IF hashIndex >= 0 THEN Slice(trimmed, 0, hashIndex) ELSE trimmed
                 queryIndex == indexOf(withoutHash, <<"?">>)
                 query == IF queryIndex >= 0
                          THEN Slice(withoutHash, queryIndex, Len(withoutHash)) ELSE <<>>
                 pathPart == IF queryIndex >= 0 THEN Slice(withoutHash, 0, queryIndex)
                             ELSE withoutHash
                 ext == IF EndsWith(pathPart, <<".html">>) THEN <<".html">>
                        ELSE IF EndsWith(pathPart, <<".htm">>) THEN <<".htm">>
                        ELSE <<>>
             IN  IF pathPart = <<>> THEN NullHref
                 ELSE IF ext # <<>>
                 THEN RewrittenHref(Slice(pathPart, 0, Len(pathPart) - Len(ext))
                                        \o <<".md">> \o query \o hash)
                 ELSE NullHref

rewriteHref(href) ==
    LET trimmed == TrimSpaces(href)
    IN  IF trimmed = <<>> \/ StartsWith(trimmed, <<"#">>) THEN NullHref
        ELSE IF StartsWith(trimmed, <<"/", "/">>) THEN NullHref
        ELSE IF schemeTest(trimmed) THEN NullHref
        ELSE LET hashIndex == indexOf(trimmed, <<"#">>)
                 hash == IF hashIndex >= 0 THEN Slice(trimmed, hashIndex, Len(trimmed)) ELSE <<>>
                 withoutHash == IF hashIndex >= 0 THEN Slice(trimmed, 0, hashIndex) ELSE trimmed
                 queryIndex == indexOf(withoutHash, <<"?">>)
                 query == IF queryIndex >= 0
                          THEN Slice(withoutHash, queryIndex, Len(withoutHash)) ELSE <<>>
                 pathPart == IF queryIndex >= 0 THEN Slice(withoutHash, 0, queryIndex)
                             ELSE withoutHash
                 lower == toLowerCaseHref(pathPart)
                 ext == IF EndsWith(lower, <<".html">>) THEN <<".html">>
                        ELSE IF EndsWith(lower, <<".htm">>) THEN <<".htm">>
                        ELSE <<>>
             IN  IF pathPart = <<>> THEN NullHref
                 ELSE IF ext # <<>>
                 THEN RewrittenHref(Slice(pathPart, 0, Len(pathPart) - Len(ext))
                                        \o <<".md">> \o query \o hash)
                 ELSE NullHref

\* The body of selection.find("a[href]").each: the attribute afterwards.
rewriteLink(href) ==
    IF href = <<>> THEN href
    ELSE LET rewritten == rewriteHref(href)
         IN  IF ~rewritten.null /\ rewritten.value # <<>> THEN rewritten.value ELSE href

HrefOff == hPc = "off" /\ hHref = <<>> /\ hOut = <<>> /\ hAgain = <<>>

AnchorFound ==
    /\ hPc = "in"
    /\ hHref \in HrefPool
    /\ hOut = <<>>
    /\ hAgain = <<>>

RewriteAnchor ==
    /\ hPc = "in"
    /\ hOut' = rewriteLink(hHref)
    /\ hPc' = "once"
    /\ UNCHANGED <<hHref, hAgain>>
    /\ UNCHANGED <<filterVars, smVars, fetchVars, gitVars, titleVars, genVars, selectVars, slugVars>>

\* The anchor loop runs over the already rewritten anchor.
RewriteAnchorAgain ==
    /\ hPc = "once"
    /\ hAgain' = rewriteLink(hOut)
    /\ hPc' = "twice"
    /\ UNCHANGED <<hHref, hOut>>
    /\ UNCHANGED <<filterVars, smVars, fetchVars, gitVars, titleVars, genVars, selectVars, slugVars>>

\* --------------------------------------------------------------------------
\* Git acquisition: sparseCheckoutRepo
\* --------------------------------------------------------------------------

\* A reference is a trimmed, non-empty token sequence; a source path is a
\* token sequence like a URL path, with "\\" and " " as further tokens.
NoBranch == <<>>

Main == <<"main">>

Master == <<"master">>

Develop == <<"develop">>

ReleaseTag == <<"v1">>

\* const normalized = p.replace(/\\/g, "/").trim(); strip a leading "./";
\* strip leading and trailing slashes
normalizeSourcePath(p) ==
    LET slashed == [i \in 1..Len(p) |-> IF p[i] = "\\" THEN "/" ELSE p[i]]
        trimmed == TrimSpaces(slashed)
        rooted == IF StartsWith(trimmed, <<".", "/">>)
                  THEN Slice(trimmed, 2, Len(trimmed)) ELSE trimmed
    IN  TrimTrailingSlashes(TrimLeadingSlashes(rooted))

IsRoot(p) == p = <<>> \/ p = <<".">>

\* /\.[a-zA-Z0-9]+$/.test(p) && !p.endsWith("/"), on the names of the model
isLikelyFile(p) == p # <<>> /\ p[Len(p)] \in {"README.md"}

\* The awaited steps before the candidate loop, in order (lines 92-110).
SetupSteps(normalizedPaths) ==
    <<"rm", "mkdir", "git init", "git remote add">>
    \o (IF \E i \in 1..Len(normalizedPaths) : IsRoot(normalizedPaths[i]) THEN <<>>
        ELSE IF \E i \in 1..Len(normalizedPaths) : isLikelyFile(normalizedPaths[i])
        THEN <<"git sparse-checkout init --no-cone", "write sparse-checkout">>
        ELSE <<"git sparse-checkout init --cone", "git sparse-checkout set">>)

\* patterns of buildNoConePatterns (lines 68-79), one per line of the file
buildNoConePatterns(paths) ==
    LET pattern(p) == IF IsRoot(p) THEN <<>>
                      ELSE IF isLikelyFile(p) THEN << <<"/">> \o p >>
                      ELSE << <<"/">> \o TrimTrailingSlashes(p) \o <<"/", "**">> >>
    IN  Flat([i \in 1..Len(paths) |-> pattern(paths[i])])

NoSparse == [mode |-> "none", set |-> <<>>]

\* A configuration that is skipped only when every path is the root.
sparseConfigUnlessAllRoot(normalizedPaths) ==
    IF \A i \in 1..Len(normalizedPaths) : IsRoot(normalizedPaths[i]) THEN NoSparse
    ELSE IF \E i \in 1..Len(normalizedPaths) : isLikelyFile(normalizedPaths[i])
    THEN [mode |-> "no-cone", set |-> buildNoConePatterns(normalizedPaths)]
    ELSE [mode |-> "cone", set |-> normalizedPaths]

\* Lines 88-110: what is written to the sparse-checkout configuration
sparseConfig(normalizedPaths) ==
    IF \E i \in 1..Len(normalizedPaths) : IsRoot(normalizedPaths[i]) THEN NoSparse
    ELSE IF \E i \in 1..Len(normalizedPaths) : isLikelyFile(normalizedPaths[i])
    THEN [mode |-> "no-cone", set |-> buildNoConePatterns(normalizedPaths)]
    ELSE [mode |-> "cone", set |-> normalizedPaths]

\* What `git ls-remote --symref origin HEAD` can end with, and getDefaultBranch
LsRemoteOutcomes ==
    { [threw |-> TRUE, head |-> NoBranch], [threw |-> FALSE, head |-> NoBranch],
      [threw |-> FALSE, head |-> Develop], [threw |-> FALSE, head |-> Main],
      [threw |-> FALSE, head |-> Master] }

getDefaultBranch(lsRemote) == IF lsRemote.threw THEN NoBranch ELSE lsRemote.head

\* The candidates when a resolved default branch is the only one tried.
refsToTryDefaultOnly(requestedRef, defaultBranch) ==
    IF requestedRef # <<>> THEN <<requestedRef>>
    ELSE IF defaultBranch # NoBranch THEN <<defaultBranch>>
    ELSE <<Main, Master>>

\* The candidates without `Array.from(new Set(refsToTry))`.
refsToTryKeepingDuplicates(requestedRef, defaultBranch) ==
    IF requestedRef # <<>> THEN <<requestedRef>>
    ELSE (IF defaultBranch # NoBranch THEN <<defaultBranch>> ELSE <<>>) \o <<Main, Master>>

\* refsToTry (lines 112-122)
refsToTry(requestedRef, defaultBranch) ==
    IF requestedRef # <<>> THEN <<requestedRef>>
    ELSE Dedup((IF defaultBranch # NoBranch THEN <<defaultBranch>> ELSE <<>>)
               \o <<Main, Master>>, {})

GitFailure(message) ==
    [raised |-> FALSE, ok |-> FALSE, checkoutPaths |-> <<>>, ref |-> <<>>, error |-> message]

GitSuccess(checkoutPaths, ref) ==
    [raised |-> FALSE, ok |-> TRUE, checkoutPaths |-> checkoutPaths, ref |-> ref, error |-> <<>>]

NoPathsFound == <<"No requested paths found in repository">>

GenericFailure == <<"Git sparse checkout failed.">>

\* An error of the setup that no handler catches: the call rejects.
SetupErrorEscapes(message) == [GitFailure(message) EXCEPT !.raised = TRUE]

\* The outer catch (lines 157-160)
CatchSetupError(message) == GitFailure(message)

\* The requested paths that fs.access finds, in request order (lines 130-142)
checkoutPathsOf(normalizedPaths, present) ==
    SelectSeq(normalizedPaths, LAMBDA p : IsRoot(p) \/ p \in present)

\* A turn of the loop that accepts every checkout that succeeded.
tryRefAcceptingEveryCheckout(ref, remote, normalizedPaths) ==
    IF ~remote.fetched
    THEN [accepted |-> FALSE, lastError |-> <<"git fetch failed">> \o ref, paths |-> <<>>]
    ELSE IF ~remote.checkedOut
    THEN [accepted |-> FALSE, lastError |-> <<"git checkout failed">> \o ref, paths |-> <<>>]
    ELSE [accepted |-> TRUE, lastError |-> <<>>,
          paths |-> checkoutPathsOf(normalizedPaths, remote.present)]

\* One turn of the candidate loop (lines 125-154) on a reference the remote
\* answers for as `remote` says: accepted with a result, or the new lastError.
tryRef(ref, remote, normalizedPaths) ==
    IF ~remote.fetched
    THEN [accepted |-> FALSE, lastError |-> <<"git fetch failed">> \o ref, paths |-> <<>>]
    ELSE IF ~remote.checkedOut
    THEN [accepted |-> FALSE, lastError |-> <<"git checkout failed">> \o ref, paths |-> <<>>]
    ELSE IF Len(checkoutPathsOf(normalizedPaths, remote.present)) = 0
    THEN [accepted |-> FALSE, lastError |-> NoPathsFound, paths |-> <<>>]
    ELSE [accepted |-> TRUE, lastError |-> <<>>,
          paths |-> checkoutPathsOf(normalizedPaths, remote.present)]

\* ---- inputs ----
GitRefs == {ReleaseTag, Develop, Main, Master}

RawRefs == { <<>>, <<" ">>, <<" ">> \o ReleaseTag \o <<" ">> }

SourcePathsPool ==
    { << <<"docs">> >>,
      << <<".", "/", "docs", "/">>, <<"README.md">> >>,
      << <<"docs", "\\", "api">>, <<"guides">> >>,
      << <<".">> >>,
      << <<>>, <<"/", "docs">> >> }

normalizedPathsOf(args) ==
    [i \in 1..Len(args.sourcePaths) |-> normalizeSourcePath(args.sourcePaths[i])]

RemoteStates(normalizedPaths) ==
    { [fetched |-> FALSE, checkedOut |-> FALSE, present |-> {}],
      [fetched |-> TRUE, checkedOut |-> FALSE, present |-> {}] }
    \cup { [fetched |-> TRUE, checkedOut |-> TRUE, present |-> S] :
             S \in SUBSET {p \in Range(normalizedPaths) : ~IsRoot(p)} }

GitOff ==
    /\ gPc = "off"
    /\ gArgs = [ref |-> <<>>, sourcePaths |-> <<>>]
    /\ gRemote = [r \in {} |-> FALSE]
    /\ gDefault = NoBranch
    /\ gRefsToTry = <<>>
    /\ gTried = 0
    /\ gLastError = <<>>
    /\ gResult = GitFailure(<<>>)
    /\ gFetched = <<>>
    /\ gSparse = NoSparse

\* sparseCheckoutRepo(args) has been called, against some remote.
GitCalled ==
    /\ gPc = "setup"
    /\ gArgs \in [ref : RawRefs, sourcePaths : SourcePathsPool]
    /\ gRemote \in [GitRefs -> RemoteStates(normalizedPathsOf(gArgs))]
    /\ gDefault = NoBranch
    /\ gRefsToTry = <<>>
    /\ gTried = 0
    /\ gLastError = <<>>
    /\ gResult = GitFailure(<<>>)
    /\ gFetched = <<>>
    /\ gSparse = NoSparse

\* Lines 92-110: every step succeeds, or one of them throws into the outer catch.
GitSetup ==
    /\ gPc = "setup"
    /\ \/ /\ gPc' = "refs"
          /\ gSparse' = sparseConfig(normalizedPathsOf(gArgs))
          /\ UNCHANGED gResult
       \/ \E k \in 1..Len(SetupSteps(normalizedPathsOf(gArgs))) :
            /\ gResult' = CatchSetupError(<<SetupSteps(normalizedPathsOf(gArgs))[k]>>)
            /\ gPc' = "returned"
            /\ UNCHANGED gSparse
    /\ UNCHANGED <<gArgs, gRemote, gDefault, gRefsToTry, gTried, gLastError, gFetched>>
    /\ UNCHANGED <<filterVars, smVars, fetchVars, titleVars, genVars, selectVars, hrefVars, slugVars>>

\* Lines 112-124: the candidate list, asking the remote for its default
\* branch when no reference was requested.
GitChooseRefs ==
    /\ gPc = "refs"
    /\ \E lsRemote \in LsRemoteOutcomes :
         /\ gDefault' = IF TrimSpaces(gArgs.ref) # <<>> THEN NoBranch
                        ELSE getDefaultBranch(lsRemote)
         /\ gRefsToTry' = refsToTry(TrimSpaces(gArgs.ref), gDefault')
    /\ gPc' = "trying"
    /\ UNCHANGED <<gArgs, gRemote, gTried, gLastError, gResult, gFetched, gSparse>>
    /\ UNCHANGED <<filterVars, smVars, fetchVars, titleVars, genVars, selectVars, hrefVars, slugVars>>

\* Lines 125-156: the next candidate is fetched, checked out and looked into;
\* the call returns on acceptance, or with the last error after the last one.
GitTryNext ==
    /\ gPc = "trying"
    /\ LET ref == gRefsToTry[gTried + 1]
           t == tryRef(ref, gRemote[ref], normalizedPathsOf(gArgs))
           lastError == t.lastError
       IN  /\ gTried' = gTried + 1
           /\ gFetched' = Append(gFetched, ref)
           /\ IF t.accepted
              THEN /\ gResult' = GitSuccess(t.paths, ref)
                   /\ gPc' = "returned"
                   /\ UNCHANGED gLastError
              ELSE /\ gLastError' = lastError
                   /\ IF gTried + 1 = Len(gRefsToTry)
                      THEN /\ gResult' = GitFailure(IF lastError # <<>> THEN lastError
                                                    ELSE GenericFailure)
                           /\ gPc' = "returned"
                      ELSE UNCHANGED <<gResult, gPc>>
    /\ UNCHANGED <<gArgs, gRemote, gDefault, gRefsToTry, gSparse>>
    /\ UNCHANGED <<filterVars, smVars, fetchVars, titleVars, genVars, selectVars, hrefVars, slugVars>>

\* --------------------------------------------------------------------------
\* Orchestration: generateDocs
\* --------------------------------------------------------------------------

DefaultRepoConcurrency == 2

\* Lines 82-87: a finite, positive number, or 2
repoConcurrency(input) == IF input > 0 THEN input ELSE DefaultRepoConcurrency

Task(at, outcome, error) == [at |-> at, outcome |-> outcome, error |-> error]

\* A failures list that names a repo only once.
recordFailureOncePerName(failures, name, message) ==
    IF \E k \in 1..Len(failures) : failures[k].name = name THEN failures
    ELSE Append(failures, [name |-> name, error |-> message])

\* failures.push({ name: repo.name, error })
recordFailure(failures, name, message) ==
    Append(failures, [name |-> name, error |-> message])

NoSummary == [total |-> 0, succeeded |-> 0, failed |-> 0, failures |-> <<>>]

\* p-limit: when a task settles, the first queued one starts (line 121-125:
\* started += 1, then await fs.mkdtemp).
RunningTasks(tasks) ==
    {i \in 1..Len(tasks) : tasks[i].at \in {"tmp", "checkout", "processing", "cleanup"}}

QueuedTasks(tasks) == {i \in 1..Len(tasks) : tasks[i].at = "queued"}

startQueuedTask(tasks, limit) ==
    IF QueuedTasks(tasks) # {} /\ Cardinality(RunningTasks(tasks)) < limit
    THEN [tasks EXCEPT ![Minimum(QueuedTasks(tasks))].at = "tmp"]
    ELSE tasks

\* path.join(docsRoot, repo.name) (line 142)
outputRepoDir(name) == <<"docs", name>>

\* path.join(indicesRoot, `${repo.name}-index.md`) (lines 151-154)
indexFilePath(name) == <<"indices", name, "-index.md">>

\* ---- inputs ----
MaxSources == 3

NoTempDir == 0

\* The names fs.mkdtemp can make up after the "docpup-" prefix
TempNames == 1..MaxSources

\* fs.mkdtemp(path.join(os.tmpdir(), "docpup-")): a directory that did not
\* exist is created
mkdtemp(existing) == TempNames \ existing

\* A finally block that removes the directory only after a success.
removeTempDirAfterSuccess(existing, i) ==
    IF dTask[i].outcome = "succeeded" THEN existing \ {dTempDir[i]} ELSE existing

\* fs.rm(tempDir, { recursive: true, force: true }) in the finally block
removeTempDir(existing, i) == existing \ {dTempDir[i]}

RepoNames == {"alpha", "beta"}

CheckoutErrors == {"Git sparse checkout failed."}

ProcessingErrors == {"ENOENT: scan failed"}

GenOff ==
    /\ dPc = "off"
    /\ dRepos = <<>>
    /\ dConcurrency = 1
    /\ dTask = <<>>
    /\ dSucceeded = 0
    /\ dFailed = 0
    /\ dFailures = <<>>
    /\ dSummary = NoSummary
    /\ dTempDir = <<>>
    /\ dExisting = {}
    /\ dTouched = {}

\* generateDocs has run up to `await Promise.all(tasks)` (lines 65-196): the
\* configuration loaded, at least one repo selected, the limiter has started
\* the first tasks.
GenCalled ==
    /\ dPc = "running"
    /\ \E n \in 1..MaxSources : dRepos \in [1..n -> RepoNames]
    /\ \E input \in 0..2 : dConcurrency = repoConcurrency(input)
    /\ dTask = [i \in 1..Len(dRepos) |->
                  Task(IF i <= dConcurrency THEN "tmp" ELSE "queued", "none", "")]
    /\ dSucceeded = 0
    /\ dFailed = 0
    /\ dFailures = <<>>
    /\ dSummary = NoSummary
    /\ dTempDir = [i \in 1..Len(dRepos) |-> NoTempDir]
    /\ dExisting = {}
    /\ dTouched = {}

\* A task's promise rejected: Promise.all rejects with the first rejection
\* and generateDocs throws it (line 196); the limiter goes on.
rejectTask(i) ==
    /\ dTask' = startQueuedTask([dTask EXCEPT ![i].at = "rejected"], dConcurrency)
    /\ dPc' = IF dPc = "running" THEN "threw" ELSE dPc

\* Line 125: fs.mkdtemp settles, outside the try.
TempDirSettles(i) ==
    /\ dTask[i].at = "tmp"
    /\ \/ /\ dTask' = [dTask EXCEPT ![i].at = "checkout"]
          /\ \E d \in mkdtemp(dExisting) :
                /\ dTempDir' = [dTempDir EXCEPT ![i] = d]
                /\ dExisting' = dExisting \cup {d}
          /\ UNCHANGED dPc
       \/ /\ rejectTask(i)
          /\ UNCHANGED <<dTempDir, dExisting>>
    /\ UNCHANGED <<dRepos, dConcurrency, dSucceeded, dFailed, dFailures, dSummary, dTouched>>
    /\ UNCHANGED <<filterVars, smVars, fetchVars, gitVars, titleVars, selectVars, hrefVars, slugVars>>

\* Lines 127-139: sparseCheckoutRepo resolves; a failure is counted and the
\* task goes to its finally block.
CheckoutSettles(i) ==
    /\ dTask[i].at = "checkout"
    /\ \/ /\ dTask' = [dTask EXCEPT ![i].at = "processing"]
          /\ UNCHANGED <<dFailed, dFailures>>
       \/ \E e \in CheckoutErrors :
            /\ dFailed' = dFailed + 1
            /\ dFailures' = recordFailure(dFailures, dRepos[i], e)
            /\ dTask' = [dTask EXCEPT ![i] = Task("cleanup", "failed", e)]
    /\ UNCHANGED <<dPc, dRepos, dConcurrency, dSucceeded, dSummary,
                   dTempDir, dExisting, dTouched>>
    /\ UNCHANGED <<filterVars, smVars, fetchVars, gitVars, titleVars, selectVars, hrefVars, slugVars>>

\* Lines 141-187: scan, copy and index run to the end of the try, or one of
\* them throws into the catch.
ProcessingSettles(i) ==
    /\ dTask[i].at = "processing"
    /\ \/ /\ dSucceeded' = dSucceeded + 1
          /\ dTask' = [dTask EXCEPT ![i] = Task("cleanup", "succeeded", "")]
          /\ dTouched' = dTouched \cup {[task |-> i, path |-> outputRepoDir(dRepos[i])],
                                        [task |-> i, path |-> indexFilePath(dRepos[i])]}
          /\ UNCHANGED <<dFailed, dFailures>>
       \/ \E e \in ProcessingErrors :
            /\ dFailed' = dFailed + 1
            /\ dFailures' = recordFailure(dFailures, dRepos[i], e)
            /\ dTask' = [dTask EXCEPT ![i] = Task("cleanup", "failed", e)]
            /\ \/ UNCHANGED dTouched
               \/ dTouched' = dTouched \cup {[task |-> i, path |-> outputRepoDir(dRepos[i])]}
            /\ UNCHANGED dSucceeded
    /\ UNCHANGED <<dPc, dRepos, dConcurrency, dSummary, dTempDir, dExisting>>
    /\ UNCHANGED <<filterVars, smVars, fetchVars, gitVars, titleVars, selectVars, hrefVars, slugVars>>

\* Lines 188-192: the finally block's fs.rm settles and with it the task.
CleanupSettles(i) ==
    /\ dTask[i].at = "cleanup"
    /\ \/ /\ dTask' = startQueuedTask([dTask EXCEPT ![i].at = "done"], dConcurrency)
          /\ dExisting' = removeTempDir(dExisting, i)
          /\ UNCHANGED dPc
       \/ /\ rejectTask(i)
          /\ UNCHANGED dExisting
    /\ UNCHANGED <<dRepos, dConcurrency, dSucceeded, dFailed, dFailures, dSummary,
                   dTempDir, dTouched>>
    /\ UNCHANGED <<filterVars, smVars, fetchVars, gitVars, titleVars, selectVars, hrefVars, slugVars>>

\* Lines 196-208: every task fulfilled; the summary is returned.
GenReturns ==
    /\ dPc = "running"
    /\ \A i \in 1..Len(dRepos) : dTask[i].at = "done"
    /\ dSummary' = [total |-> Len(dRepos), succeeded |-> dSucceeded,
                    failed |-> dFailed, failures |-> dFailures]
    /\ dPc' = "returned"
    /\ UNCHANGED <<dRepos, dConcurrency, dTask, dSucceeded, dFailed, dFailures,
                   dTempDir, dExisting, dTouched>>
    /\ UNCHANGED <<filterVars, smVars, fetchVars, gitVars, titleVars, selectVars, hrefVars, slugVars>>

\* --------------------------------------------------------------------------
\* Sitemap resolver: fetchSitemap, the parsers, resolveSitemapUrls
\* --------------------------------------------------------------------------

NoResponse == [kind |-> "none"]

\* What docpupFetch can end with: the request rejects (network error or the
\* 30 s timeout), or a response arrives with a status and a body.
NetworkError == [kind |-> "throw"]

HttpError(status) == [kind |-> "response", ok |-> FALSE, status |-> status, xml |-> <<>>]

XmlResponse(xml) == [kind |-> "response", ok |-> TRUE, status |-> 200, xml |-> xml]

\* A sitemap document: whether it has a <sitemapindex> element, the texts of
\* its `url > loc` elements and of its `sitemapindex > sitemap > loc`
\* elements, in document order.  A text is a sequence of tokens: Ws for a
\* run of white space, Chars(u) for the characters of the URL u.
Ws == [ws |-> TRUE]

Chars(u) == [ws |-> FALSE, url |-> u]

UrlSet(locs) == [sitemapindex |-> FALSE, urlLocs |-> locs, sitemapLocs |-> <<>>]

SitemapIndex(locs) == [sitemapindex |-> TRUE, urlLocs |-> <<>>, sitemapLocs |-> locs]

RECURSIVE TrimLeft(_)
TrimLeft(t) == IF t # <<>> /\ Head(t).ws THEN TrimLeft(Tail(t)) ELSE t

RECURSIVE TrimRight(_)
TrimRight(t) ==
    IF t # <<>> /\ t[Len(t)].ws THEN TrimRight(SubSeq(t, 1, Len(t) - 1)) ELSE t

\* String.prototype.trim
Trim(t) == TrimRight(TrimLeft(t))

\* $(sel).each(el => { const text = $(el).text().trim(); if (text) urls.push(text) })
\* A loc text holds one URL, so its trimmed form is that URL alone.
CollectLocs(locs) ==
    LET trimmed == [i \in 1..Len(locs) |-> Trim(locs[i])]
        kept == SelectSeq(trimmed, LAMBDA t : t # <<>>)
    IN  [i \in 1..Len(kept) |-> kept[i][1].url]

parseSitemapUrls(xml) == CollectLocs(xml.urlLocs)

isSitemapIndex(xml) == xml.sitemapindex

parseSitemapIndexUrls(xml) == CollectLocs(xml.sitemapLocs)

\* fetchSitemap: the text of a successful response, or a thrown error.
fetchSitemap(resp) ==
    IF resp.kind = "throw" THEN [threw |-> TRUE, error |-> "network error", xml |-> <<>>]
    ELSE IF ~resp.ok THEN [threw |-> TRUE, error |-> "HTTP status fetching sitemap", xml |-> <<>>]
    ELSE [threw |-> FALSE, error |-> "", xml |-> resp.xml]

\* A child task without its try/catch: a failed fetch rejects the task.
childTaskNoCatch(resp) ==
    LET r == fetchSitemap(resp)
    IN  IF r.threw THEN [threw |-> TRUE, error |-> r.error, urls |-> <<>>]
        ELSE [threw |-> FALSE, error |-> "", urls |-> parseSitemapUrls(r.xml)]

\* The async callback mapped over childSitemapUrls: what its promise settles to.
childTask(resp) ==
    LET r == fetchSitemap(resp)
    IN  IF r.threw THEN [threw |-> FALSE, error |-> "", urls |-> <<>>]
        ELSE [threw |-> FALSE, error |-> "", urls |-> parseSitemapUrls(r.xml)]

\* Results gathered in the order the child fetches completed.
GatherByCompletion(results, completed) ==
    [k \in 1..Len(completed) |-> results[completed[k]]]

\* Promise.all: the fulfilment values, in the order of the input promises.
GatherChildResults(results, completed) ==
    [i \in 1..Len(results) |-> results[i]]

NoUrlsFound == "No URLs found in sitemap"

\* The end of resolveSitemapUrls without the empty check.
FinishResolveUnchecked(allUrls, paths) ==
    [pc |-> "done",
     out |-> IF Len(paths) > 0 THEN filterUrls(allUrls, paths) ELSE allUrls,
     error |-> ""]

\* Lines 358-364: the empty check and the optional filter.
\* Gives the next smPc, smOut and smError for a given allUrls.
FinishResolve(allUrls, paths) ==
    IF Len(allUrls) = 0
    THEN [pc |-> "failed", out |-> <<>>, error |-> NoUrlsFound]
    ELSE [pc |-> "done",
          out |-> IF Len(paths) > 0 THEN filterUrls(allUrls, paths) ELSE allUrls,
          error |-> ""]

\* ---- inputs ----
MaxChildren == 3

PageA == Url(<<"/", "api", "/", "errors">>)
PageB == Url(<<"/", "guides", "/", "intro">>)
PageC == Url(<<"/", "api", "/", "sdks", "/", "go">>)

ChildDocs ==
    { UrlSet(<< <<Chars(PageA)>>, <<Chars(PageB)>> >>),
      UrlSet(<< <<Ws, Chars(PageC), Ws>>, <<Ws>> >>),
      UrlSet(<< <<Chars(PageB)>> >>),
      UrlSet(<<>>) }

ChildResponses == {NetworkError, HttpError(404)} \cup {XmlResponse(d) : d \in ChildDocs}

ChildFiles == <<"sitemap-1.xml", "sitemap-2.xml", "sitemap-3.xml", "sitemap-4.xml",
                "sitemap-5.xml", "sitemap-6.xml">>

ChildName(i) == Chars(Url(<<"/", ChildFiles[i]>>))

\* An index listing k children; the second variant has a blank loc first.
IndexDocs ==
    {SitemapIndex([i \in 1..k |-> <<ChildName(i)>>]) : k \in 0..MaxChildren}
    \cup {SitemapIndex(<< <<Ws>> >> \o [i \in 1..k |-> <<Ws, ChildName(i)>>]) : k \in 1..MaxChildren}

RootResponses ==
    {NetworkError, HttpError(404)}
    \cup {XmlResponse(d) : d \in ChildDocs \cup IndexDocs}

SitemapPathsPool == { <<>>, << [prefix |-> <<"api">>, subs |-> {}] >> }

SitemapOff ==
    /\ smPc = "off"
    /\ smPaths = <<>>
    /\ smRoot = NoResponse
    /\ smChildren = <<>>
    /\ smChildResp = <<>>
    /\ smResults = <<>>
    /\ smCompleted = <<>>
    /\ smAllUrls = <<>>
    /\ smOut = <<>>
    /\ smError = ""

\* resolveSitemapUrls(args) has been called and awaits fetchSitemap(sitemapUrl).
SitemapCalled ==
    /\ smPc = "root"
    /\ smPaths \in SitemapPathsPool
    /\ smRoot = NoResponse
    /\ smChildren = <<>>
    /\ smChildResp = <<>>
    /\ smResults = <<>>
    /\ smCompleted = <<>>
    /\ smAllUrls = <<>>
    /\ smOut = <<>>
    /\ smError = ""

\* The root fetch settles (line 336) and the call runs to its next await:
\* it rejects, or returns from a plain URL set, or starts every child fetch.
RootSettles ==
    /\ smPc = "root"
    /\ \E resp \in RootResponses :
        LET r == fetchSitemap(resp)
        IN  /\ smRoot' = resp
            /\ IF r.threw
               THEN /\ smPc' = "failed"
                    /\ smError' = r.error
                    /\ UNCHANGED <<smChildren, smChildResp, smResults, smAllUrls, smOut>>
               ELSE IF isSitemapIndex(r.xml)
               THEN LET kids == parseSitemapIndexUrls(r.xml)
                    IN  /\ smPc' = "children"
                        /\ smChildren' = kids
                        /\ smChildResp' = [i \in 1..Len(kids) |-> NoResponse]
                        /\ smResults' = [i \in 1..Len(kids) |-> <<>>]
                        /\ UNCHANGED <<smAllUrls, smOut, smError>>
               ELSE LET fin == FinishResolve(parseSitemapUrls(r.xml), smPaths)
                    IN  /\ smAllUrls' = parseSitemapUrls(r.xml)
                        /\ smPc' = fin.pc
                        /\ smOut' = fin.out
                        /\ smError' = fin.error
                        /\ UNCHANGED <<smChildren, smChildResp, smResults>>
    /\ UNCHANGED <<smPaths, smCompleted>>
    /\ UNCHANGED <<filterVars, fetchVars, gitVars, titleVars, genVars, selectVars, hrefVars, slugVars>>

\* One child fetch settles, in any order (lines 343-351).  A task that
\* rejected would reject Promise.all, and with it the whole call, at once.
ChildSettles(i) ==
    /\ smPc = "children"
    /\ smChildResp[i] = NoResponse
    /\ \E resp \in ChildResponses :
        LET t == childTask(resp)
        IN  /\ smChildResp' = [smChildResp EXCEPT ![i] = resp]
            /\ smCompleted' = Append(smCompleted, i)
            /\ IF t.threw
               THEN /\ smPc' = "failed"
                    /\ smError' = t.error
                    /\ UNCHANGED smResults
               ELSE /\ smResults' = [smResults EXCEPT ![i] = t.urls]
                    /\ UNCHANGED <<smPc, smError>>
    /\ UNCHANGED <<smPaths, smRoot, smChildren, smAllUrls, smOut>>
    /\ UNCHANGED <<filterVars, fetchVars, gitVars, titleVars, genVars, selectVars, hrefVars, slugVars>>

\* Promise.all has resolved: flatten, check, filter, return (lines 353-364).
ChildrenGathered ==
    /\ smPc = "children"
    /\ \A i \in 1..Len(smChildren) : smChildResp[i] # NoResponse
    /\ LET all == Flat(GatherChildResults(smResults, smCompleted))
           fin == FinishResolve(all, smPaths)
       IN  /\ smAllUrls' = all
           /\ smPc' = fin.pc
           /\ smOut' = fin.out
           /\ smError' = fin.error
    /\ UNCHANGED <<smPaths, smRoot, smChildren, smChildResp, smResults, smCompleted>>
    /\ UNCHANGED <<filterVars, fetchVars, gitVars, titleVars, genVars, selectVars, hrefVars, slugVars>>

SitemapNext ==
    \/ RootSettles
    \/ \E i \in 1..Len(smChildren) : ChildSettles(i)
    \/ ChildrenGathered

SitemapInit == SitemapCalled /\ FilterOff /\ FetchOff /\ GitOff /\ TitlesOff /\ GenOff /\ SelectOff /\ HrefOff /\ SlugOff

SpecSitemap == SitemapInit /\ [][SitemapNext]_vars

\* ---- C7 ----------------------------------------------------------------
RootIsIndex ==
    smRoot.kind = "response" /\ smRoot.ok /\ isSitemapIndex(smRoot.xml)

ChildSucceeded(i) == smChildResp[i].kind = "response" /\ smChildResp[i].ok

\* The URL list of child i, in document order, from the response it got.
C7_ChildUrlList(i) ==
    IF ChildSucceeded(i) THEN parseSitemapUrls(smChildResp[i].xml) ELSE <<>>

C7_Concatenation == Flat([i \in 1..Len(smChildren) |-> C7_ChildUrlList(i)])

\* C7: a resolved sitemap index yields the children's URL lists concatenated
\* in the order the index lists the children, each list in document order,
\* whatever the order in which the child fetches completed; that list is
\* returned as it is when no inclusion rules are given, and filtered
\* (order kept) when they are.
C7_IndexOrderPreserved ==
    (smPc = "done" /\ RootIsIndex)
        => /\ smAllUrls = C7_Concatenation
           /\ smOut = IF Len(smPaths) > 0
                      THEN filterUrls(C7_Concatenation, smPaths)
                      ELSE C7_Concatenation

\* An index of three children resolved without rules, the last child having
\* completed first and the first child last, the children holding different
\* non-empty lists.
C7_Witness ==
    /\ smPc = "done"
    /\ RootIsIndex
    /\ smPaths = <<>>
    /\ Len(smChildren) >= 3
    /\ smCompleted[1] = Len(smChildren)
    /\ smCompleted[Len(smCompleted)] = 1
    /\ C7_ChildUrlList(1) = <<PageA, PageB>>
    /\ C7_ChildUrlList(2) = <<PageC>>
    /\ smOut = <<PageA, PageB, PageC>> \o C7_ChildUrlList(3)

\* ---- C8 ----------------------------------------------------------------
\* The positions of the children whose fetch succeeded, in index order.
C8_Survivors ==
    SelectSeq([i \in 1..Len(smChildren) |-> i], LAMBDA i : ChildSucceeded(i))

C8_SurvivingUrls ==
    Flat([k \in 1..Len(C8_Survivors) |-> parseSitemapUrls(smChildResp[C8_Survivors[k]].xml)])

\* C8: a child whose fetch fails (network error or non-success status)
\* contributes nothing and never aborts the resolution: the call rejects
\* after a successful root fetch only with "No URLs found", only once every
\* child has settled, and only if no child yielded a URL; otherwise allUrls
\* is the URLs of the children that succeeded, in their original order.
C8_ChildFailureNeverAborts ==
    /\ (smPc = "failed" /\ RootIsIndex)
          => /\ smError = NoUrlsFound
             /\ \A i \in 1..Len(smChildren) : smChildResp[i] # NoResponse
             /\ C8_SurvivingUrls = <<>>
    /\ (smPc = "done" /\ RootIsIndex)
          => /\ smAllUrls = C8_SurvivingUrls
             /\ smOut = IF Len(smPaths) > 0
                        THEN filterUrls(C8_SurvivingUrls, smPaths)
                        ELSE C8_SurvivingUrls

\* An index resolved although its first child failed with a network error
\* and its second with HTTP 404, both before the third child answered.
C8_Witness ==
    /\ smPc = "done"
    /\ RootIsIndex
    /\ Len(smChildren) >= 3
    /\ smChildResp[1] = NetworkError
    /\ smChildResp[2] = HttpError(404)
    /\ smCompleted[Len(smCompleted)] = 3
    /\ smOut = <<PageA, PageB>>

FetchNext ==
    \/ \E i \in 1..Len(uniqueUrls) : NegotiatedSettles(i)
    \/ \E i \in 1..Len(uniqueUrls) : HtmlSettles(i)
    \/ AllSettled
    \/ WriteNext

FetchInit == FetchCalled /\ FilterOff /\ SitemapOff /\ GitOff /\ TitlesOff /\ GenOff /\ SelectOff /\ HrefOff /\ SlugOff

SpecFetch == FetchInit /\ [][FetchNext]_vars

\* ---- shared vocabulary of the fetcher's claims -----------------------------
FetchedCount == Cardinality({i \in 1..Len(uniqueUrls) : fetchResults[i].status = "fulfilled"})

FailedCount == Cardinality({i \in 1..Len(uniqueUrls) : fetchResults[i].status = "rejected"})

AllHaveSettled == \A i \in 1..Len(uniqueUrls) : fetchResults[i].status # "pending"

\* The negotiated request of URL i was answered, successfully and with a
\* markdown content type.
NegotiatedOffersMarkdown(i) ==
    /\ negResp[i].kind = "response"
    /\ negResp[i].ok
    /\ DeclaresMarkdown(negResp[i].ctype)

\* It ended otherwise: a status, another content type, or no answer at all.
NegotiatedMissed(i) == negResp[i].kind # "none" /\ ~NegotiatedOffersMarkdown(i)

HtmlWasRequested(i) ==
    \E k \in 1..Len(requests[i]) : requests[i][k] = HtmlRequest(uniqueUrls[i])

\* ---- C1 ----------------------------------------------------------------
\* C1 (as claimed): the file names assigned to a batch of fetched pages are
\* pairwise distinct, one per page, whatever the titles.
C1_FileNamesPairwiseDistinct ==
    (fuPc \in {"writing", "done"})
        => /\ Len(fileNames) = Len(pages)
           /\ \A i, j \in 1..Len(fileNames) : i # j => fileNames[i] # fileNames[j]

\* ---- C2 ----------------------------------------------------------------
\* C2 (as claimed): when at least one URL yields a page the call completes
\* without error and the output directory then holds exactly one file per
\* fetched URL; a failed URL is only a warning.
C2_OneFilePerFetchedUrl ==
    /\ (AllHaveSettled /\ FetchedCount >= 1) => fuPc # "failed"
    /\ fuPc = "done"
          => /\ Cardinality(DOMAIN files) = FetchedCount
             /\ Len(warnings) = FailedCount

\* What does hold: one write per fetched URL, one warning per failed URL,
\* and one file per fetched URL whenever the assigned names are distinct.
C2_OneWritePerFetchedUrl ==
    /\ (AllHaveSettled /\ FetchedCount >= 1) => fuPc # "failed"
    /\ fuPc = "done"
          => /\ Len(writes) = FetchedCount
             /\ Len(warnings) = FailedCount
             /\ Cardinality(Range(fileNames)) = Len(fileNames)
                    => Cardinality(DOMAIN files) = FetchedCount

\* ---- C3 ----------------------------------------------------------------
\* C3: when every URL fails, the call throws the one aggregate error "All
\* URL fetches failed", after every fetch has settled, and nothing has been
\* written; it throws in no other case, and nothing is written before every
\* fetch has settled.
C3_AllFailedThrowsAndWritesNothing ==
    /\ fuPc = "failed"
          => /\ fuError = AllFetchesFailed
             /\ AllHaveSettled
             /\ FetchedCount = 0
             /\ Len(warnings) = Len(uniqueUrls)
             /\ writes = <<>>
             /\ DOMAIN files = {}
    /\ fuPc \in {"writing", "done"} => FetchedCount >= 1 /\ fuError = ""
    /\ fuPc = "fetching" => writes = <<>> /\ DOMAIN files = {}

\* Two URLs failed in different ways (a rejected negotiated request, an HTML
\* request answered with an error status) and the call has thrown.
C3_Witness ==
    /\ fuPc = "failed"
    /\ Len(uniqueUrls) >= 2
    /\ \E i, j \in 1..Len(uniqueUrls) :
          /\ negResp[i].kind = "throw"
          /\ HtmlWasRequested(j)
          /\ fetchResults[j].reason = "HTTP status"

\* ---- C4 ----------------------------------------------------------------
DerivedFromTitle(heading, title) ==
    /\ heading # <<>>
    /\ \E a \in 0..Len(title) : \E b \in a..Len(title) : Slice(title, a, b) = heading

C5_EveryOtherOutcomeIsAMiss ==
    \A i \in 1..Len(uniqueUrls) :
        /\ (fetchResults[i].status = "fulfilled" /\ fetchResults[i].value.kind = "markdown")
              => NegotiatedOffersMarkdown(i)
        /\ NegotiatedMissed(i) => Len(requests[i]) >= 2

\* What does hold: the same for every outcome in which a response arrived.
C5_EveryAnsweredOutcomeIsAMiss ==
    \A i \in 1..Len(uniqueUrls) :
        /\ (fetchResults[i].status = "fulfilled" /\ fetchResults[i].value.kind = "markdown")
              => NegotiatedOffersMarkdown(i)
        /\ (negResp[i].kind = "response" /\ NegotiatedMissed(i)) => Len(requests[i]) >= 2

\* ---- C6 ----------------------------------------------------------------
\* C6 (as claimed): before any HTML fetch of a URL that is not already
\* markdown-suffixed, the candidate toMdUrl(url) has been probed; for a URL
\* ending in .md there is no candidate and no probe.
C6_ProbesMarkdownVariantFirst ==
    \A i \in 1..Len(uniqueUrls) : \A k \in 1..Len(requests[i]) :
        requests[i][k] = HtmlRequest(uniqueUrls[i])
            => IF toMdUrl(uniqueUrls[i]) = NoUrl
               THEN Len(requests[i]) = 2
               ELSE \E j \in 1..(k - 1) : requests[i][j].url = toMdUrl(uniqueUrls[i])

GitNext == GitSetup \/ GitChooseRefs \/ GitTryNext

GitInit == GitCalled /\ FilterOff /\ SitemapOff /\ FetchOff /\ TitlesOff /\ GenOff /\ SelectOff /\ HrefOff /\ SlugOff

SpecGit == GitInit /\ [][GitNext]_vars

\* ---- C13 ---------------------------------------------------------------
GitFetchOrCheckoutFails(ref) == ~gRemote[ref].fetched \/ ~gRemote[ref].checkedOut

GitHoldsRequestedPath(ref) ==
    /\ gRemote[ref].fetched
    /\ gRemote[ref].checkedOut
    /\ checkoutPathsOf(normalizedPathsOf(gArgs), gRemote[ref].present) # <<>>

\* C13: with no revision requested, a default branch that was resolved but
\* cannot be fetched or checked out, and a "main" that can be and holds a
\* requested path, the call returns success carrying the reference "main".
C13_FallsBackToMain ==
    (/\ gPc = "returned"
     /\ TrimSpaces(gArgs.ref) = <<>>
     /\ gDefault # NoBranch
     /\ gDefault # Main
     /\ GitFetchOrCheckoutFails(gDefault)
     /\ GitHoldsRequestedPath(Main))
        => /\ gResult.ok
           /\ gResult.ref = Main
           /\ gResult.checkoutPaths =
                  checkoutPathsOf(normalizedPathsOf(gArgs), gRemote[Main].present)

\* The default branch "develop" could not be checked out, "main" held one of
\* two requested paths, and the call returned it under the reference "main".
C13_Witness ==
    /\ gPc = "returned"
    /\ gArgs.ref = <<" ">>
    /\ gDefault = Develop
    /\ gRemote[Develop].fetched
    /\ ~gRemote[Develop].checkedOut
    /\ gTried = 2
    /\ gResult.ok
    /\ gResult.ref = Main
    /\ Len(gResult.checkoutPaths) = 1
    /\ Len(gArgs.sourcePaths) = 2

\* ---- C14 ---------------------------------------------------------------
\* The diagnostic the last candidate of the list leaves behind.
C14_LastDiagnostic ==
    tryRef(gRefsToTry[Len(gRefsToTry)], gRemote[gRefsToTry[Len(gRefsToTry)]],
           normalizedPathsOf(gArgs)).lastError

\* C14: the call never raises: it returns a success, or a failure with a
\* non-empty diagnostic; when every candidate was tried and none was
\* accepted, the diagnostic is the one the last candidate left (its git
\* error, or "No requested paths found in repository").
C14_NeverRaisesAndReportsLastDiagnostic ==
    gPc = "returned"
        => /\ ~gResult.raised
           /\ gResult.ok \/ gResult.error # <<>>
           /\ (~gResult.ok /\ gRefsToTry # <<>>)
                 => /\ gTried = Len(gRefsToTry)
                    /\ gResult.error = C14_LastDiagnostic
                    /\ gResult.error = gLastError

\* Two candidates were tried: the first could not be fetched, the second
\* checked out without any requested path, and the call returned that.
C14_Witness ==
    /\ gPc = "returned"
    /\ ~gResult.ok
    /\ gTried = 2
    /\ ~gRemote[gRefsToTry[1]].fetched
    /\ gRemote[gRefsToTry[2]].checkedOut
    /\ gResult.error = NoPathsFound

\* A step of the working-directory setup failed and the call returned it.
C14_SetupFailureWitness ==
    /\ gPc = "returned"
    /\ gRefsToTry = <<>>
    /\ gResult.error = <<"write sparse-checkout">>

TitlesNext == NameTitles

TitlesInit == TitlesTaken /\ FilterOff /\ SitemapOff /\ FetchOff /\ GitOff /\ GenOff /\ SelectOff /\ HrefOff /\ SlugOff

SpecTitles == TitlesInit /\ [][TitlesNext]_vars

\* ---- C15 ---------------------------------------------------------------
C15_EndsWithSeparator(p) == \E k \in 1..Len(separators) : EndsWith(p, separators[k])

C15_BeginsWithSeparator(p) == \E k \in 1..Len(separators) : StartsWith(p, separators[k])

\* The prefixes every title begins with that end in a separator, and the
\* suffixes every title ends with that begin with one.
C15_AlignedPrefixes(titles) ==
    {p \in {Slice(titles[1], 0, n) : n \in 1..Len(titles[1])} :
        C15_EndsWithSeparator(p) /\ \A k \in 1..Len(titles) : StartsWith(titles[k], p)}

C15_AlignedSuffixes(titles) ==
    {x \in {Slice(titles[1], n, Len(titles[1])) : n \in 0..(Len(titles[1]) - 1)} :
        C15_BeginsWithSeparator(x) /\ \A k \in 1..Len(titles) : EndsWith(titles[k], x)}

C15_Longest(S) == IF S = {} THEN <<>> ELSE CHOOSE x \in S : \A y \in S : Len(y) <= Len(x)

\* C15: for two or more titles the longest separator-aligned common prefix
\* and suffix are removed from every title and the rest is trimmed, a title
\* that this would empty keeping its text; titles with no such affix and a
\* single title come back unchanged; the three "... - X Docs" titles strip
\* to Overview, Quickstart, Guide.
C15_StripsSeparatorAlignedAffixes ==
    tPc = "named"
        => /\ Len(tStripped) = Len(tTitles)
           /\ Len(tTitles) <= 1 => tStripped = tTitles
           /\ tTitles = ExampleTitles => tStripped = ExampleStripped
           /\ Len(tTitles) >= 2
                => \A k \in 1..Len(tTitles) :
                     LET t == tTitles[k]
                         P == C15_Longest(C15_AlignedPrefixes(tTitles))
                         S == C15_Longest(C15_AlignedSuffixes(tTitles))
                         rest == TrimSpaces(Slice(t, Len(P), Len(t) - Len(S)))
                     IN  IF P = <<>> /\ S = <<>> THEN tStripped[k] = t
                         ELSE IF Len(P) + Len(S) <= Len(t)
                         THEN tStripped[k] = (IF rest # <<>> THEN rest ELSE t)
                         ELSE TRUE

\* The example of the claim has been stripped.
C15_Witness ==
    tPc = "named" /\ tTitles = ExampleTitles /\ tStripped = ExampleStripped

\* Titles sharing the suffix ": D", one of them nothing but that suffix: it
\* kept its text, the other lost the suffix.
C15_FallbackWitness ==
    /\ tPc = "named"
    /\ Len(tTitles) = 2
    /\ tTitles[1] = <<":", " ", "D">>
    /\ tStripped[1] = tTitles[1]
    /\ tStripped[2] = <<"A">>

\* ---- C16 ---------------------------------------------------------------
C16_Slug(k) == slugify(tStripped[k])

C16_Suffixed(k) == C16_Slug(k) \o <<"-">> \o DecimalDigits(k - 1)

GenNext ==
    \/ \E i \in 1..Len(dRepos) : TempDirSettles(i)
    \/ \E i \in 1..Len(dRepos) : CheckoutSettles(i)
    \/ \E i \in 1..Len(dRepos) : ProcessingSettles(i)
    \/ \E i \in 1..Len(dRepos) : CleanupSettles(i)
    \/ GenReturns

GenInit == GenCalled /\ FilterOff /\ SitemapOff /\ FetchOff /\ GitOff /\ TitlesOff /\ SelectOff /\ HrefOff /\ SlugOff

SpecGen == GenInit /\ [][GenNext]_vars

\* ---- C17 ---------------------------------------------------------------
C17_Succeeded == {i \in 1..Len(dRepos) : dTask[i].outcome = "succeeded"}

C17_Failed == {i \in 1..Len(dRepos) : dTask[i].outcome = "failed"}

\* C17: the returned summary has total = n, succeeded + failed = total and
\* as many failures entries as `failed`; every selected repo is counted
\* once: as a success, or by one failures entry with its name and diagnostic.
C17_SummaryCountsEverySourceOnce ==
    dPc = "returned"
        => /\ dSummary.total = Len(dRepos)
           /\ dSummary.succeeded + dSummary.failed = dSummary.total
           /\ Len(dSummary.failures) = dSummary.failed
           /\ C17_Succeeded \cup C17_Failed = 1..Len(dRepos)
           /\ dSummary.succeeded = Cardinality(C17_Succeeded)
           /\ dSummary.failed = Cardinality(C17_Failed)
           /\ \A i \in C17_Failed :
                LET e == [name |-> dRepos[i], error |-> dTask[i].error]
                IN  Cardinality({k \in 1..Len(dSummary.failures) : dSummary.failures[k] = e})
                      = Cardinality({j \in C17_Failed :
                                        dRepos[j] = e.name /\ dTask[j].error = e.error})

\* Three repos, two of the same name, run two at a time: one failed at the
\* checkout, one in processing, one succeeded, the second recorded failure
\* being that of an earlier repo than the first.
C17_Witness ==
    /\ dPc = "returned"
    /\ Len(dRepos) = 3
    /\ dConcurrency = 2
    /\ dRepos[1] = dRepos[3]
    /\ dSummary.succeeded = 1
    /\ dSummary.failed = 2
    /\ dSummary.failures[1] = [name |-> dRepos[2], error |-> "Git sparse checkout failed."]
    /\ dSummary.failures[2] = [name |-> dRepos[1], error |-> "ENOENT: scan failed"]

\* ---- C18 ---------------------------------------------------------------
\* C18 (as claimed): no error in a repo's task escapes that task: the run
\* never throws instead of returning its summary, and a task that has ended
\* has left its repo counted as a success or a failure.
C18_RunAlwaysReturnsSummary ==
    /\ dPc # "threw"
    /\ \A i \in 1..Len(dRepos) :
         dTask[i].at \in {"done", "rejected"} => dTask[i].outcome \in {"succeeded", "failed"}

\* What does hold: a run throws only when creating or removing a task's
\* temporary directory failed, and errors of the checkout and of the
\* processing never end a task without its repo being counted.
C18_OnlyTempDirErrorsEscape ==
    /\ dPc = "threw" => \E i \in 1..Len(dRepos) : dTask[i].at = "rejected"
    /\ \A i \in 1..Len(dRepos) :
         dTask[i].at = "done" => dTask[i].outcome \in {"succeeded", "failed"}
    /\ \A i \in 1..Len(dRepos) :
         dTask[i].outcome = "failed" => dTask[i].at \in {"cleanup", "done", "rejected"}

SelectNext == ApplySelect

SelectInit ==
    SelectArgs /\ FilterOff /\ SitemapOff /\ FetchOff /\ GitOff /\ TitlesOff /\ GenOff /\ HrefOff /\ SlugOff

SpecSelect == SelectInit /\ [][SelectNext]_vars

\* ---- C19 ---------------------------------------------------------------
C19_Has(c) == c \in DOMAIN cDoc.elements /\ cDoc.elements[c].present

C19_Defaults == <<"main", "article", "#content", ".content", ".document">>

\* C19: the root is the selector's first match when a selector is given and
\* matches; otherwise the first match of the first of main, article,
\* #content, .content, .document that matches anything; otherwise the body.
\* A selector that matches nothing falls through to the defaults.
C19_RootSelection ==
    cPc = "selected"
        => /\ cRoot.present
           /\ IF cSelector # "" /\ C19_Has(cSelector)
              THEN cRoot = cDoc.elements[cSelector]
              ELSE IF \E k \in 1..Len(C19_Defaults) : C19_Has(C19_Defaults[k])
              THEN LET k == CHOOSE k \in 1..Len(C19_Defaults) :
                               /\ C19_Has(C19_Defaults[k])
                               /\ \A j \in 1..(k - 1) : ~C19_Has(C19_Defaults[j])
                   IN  cRoot = cDoc.elements[C19_Defaults[k]]
              ELSE cRoot = cDoc.elements["body"]

\* A selector that matches nothing was given for a document without <main>
\* but with <article> and .content: the root is the <article>.
C19_Witness ==
    /\ cPc = "selected"
    /\ cSelector = "#missing"
    /\ ~C19_Has("main")
    /\ C19_Has("article")
    /\ C19_Has(".content")
    /\ cRoot = ElementOf("article")

\* No default candidate matches: the root is the body.
C19_BodyWitness ==
    /\ cPc = "selected"
    /\ cSelector = ""
    /\ \A k \in 1..Len(C19_Defaults) : ~C19_Has(C19_Defaults[k])
    /\ cRoot = ElementOf("body")

HrefNext == RewriteAnchor \/ RewriteAnchorAgain

HrefInit ==
    AnchorFound /\ FilterOff /\ SitemapOff /\ FetchOff /\ GitOff /\ TitlesOff /\ GenOff /\ SelectOff /\ SlugOff

SpecHref == HrefInit /\ [][HrefNext]_vars

\* ---- C20 ---------------------------------------------------------------
\* What is left of h in front of the first ":" is a scheme.
C20_SchemeQualified(h) ==
    LET k == indexOf(h, <<":">>)
    IN  /\ k >= 1
        /\ h[1] \in NameTokens
        /\ \A j \in 1..k : h[j] \notin {" ", "#", "?", "/"}

C20_Untouchable(h) ==
    \/ h = <<>>
    \/ h[1] = "#"
    \/ Len(h) >= 2 /\ h[1] = "/" /\ h[2] = "/"
    \/ C20_SchemeQualified(h)

\* The number of tokens in front of the query string and the fragment.
C20_PathLen(h) == Minimum({k \in 0..Len(h) : k = Len(h) \/ h[k + 1] \in {"#", "?"}})

C20_HasHtmlExtension(h) ==
    C20_PathLen(h) >= 1 /\ h[C20_PathLen(h)] \in {".html", ".HTM"}

\* h with the extension of its path part replaced by .md and nothing else moved
C20_ExtensionReplaced(h) == [h EXCEPT ![C20_PathLen(h)] = ".md"]

C20_Expected(h) ==
    IF C20_Untouchable(h) THEN h
    ELSE IF C20_HasHtmlExtension(h) THEN C20_ExtensionReplaced(h)
    ELSE h

\* The claim read on the attribute value as found: the attribute afterwards
\* is the value as found, with the extension replaced where the claim says so.
C20_RewritesAttributeAsFound ==
    hPc \in {"once", "twice"} => hOut = C20_Expected(hHref)

\* C20: an href that, with the white space around it removed, is empty, a
\* fragment, protocol-relative or scheme-qualified is left as found; any other
\* href whose path part (white space removed) ends in .html or .htm in any
\* case becomes that trimmed href with exactly the extension replaced by .md,
\* query string and fragment in place; every other href is left as found; and
\* a second pass over the result changes nothing.
C20_RewritesTrimmedHref ==
    /\ hPc \in {"once", "twice"}
           => hOut = IF C20_Expected(TrimSpaces(hHref)) = TrimSpaces(hHref)
                     THEN hHref
                     ELSE C20_Expected(TrimSpaces(hHref))
    /\ hPc = "twice" => hAgain = hOut

\* An upper-case extension followed by a query string and a fragment.
C20_Witness ==
    /\ hPc = "twice"
    /\ hHref = <<"guide", ".HTM", "?", "#", "guide">>
    /\ hOut = <<"guide", ".md", "?", "#", "guide">>
    /\ hAgain = hOut

\* White space in front of a relative html link is gone after the rewrite.
C20_TrimWitness ==
    /\ hPc = "once"
    /\ hHref = <<" ", "guide", ".html">>
    /\ hOut = <<"guide", ".md">>

FilterNext == ApplyFilter \/ ReapplyFilter

FilterInit == FilterArgs /\ SitemapOff /\ FetchOff /\ GitOff /\ TitlesOff /\ GenOff /\ SelectOff /\ HrefOff /\ SlugOff

SpecFilter == FilterInit /\ [][FilterNext]_vars

\* ---- C9 ----------------------------------------------------------------
\* The rule of the claim, read off its words: with P the trimmed prefix and N
\* the trimmed path of the URL, the URL is kept when N = P, or N lies under P
\* (every non-empty path lies under the empty prefix) and what remains after P
\* has exactly one segment or begins with a segment listed in subs.
C9_LiesUnder(n, p) ==
    IF p = <<>> THEN n # <<>> ELSE StartsWith(n, p \o <<"/">>)

C9_Remaining(n, p) ==
    IF p = <<>> THEN Segments(n) ELSE Segments(Slice(n, Len(p) + 1, Len(n)))

C9_RuleKeeps(url, rule) ==
    LET p == normalizePath(rule.prefix)
        n == normalizePath(url.pathname)
    IN  \/ n = p
        \/ /\ C9_LiesUnder(n, p)
           /\ \/ Len(C9_Remaining(n, p)) = 1
              \/ /\ Len(C9_Remaining(n, p)) > 1
                 /\ C9_Remaining(n, p)[1] \in rule.subs

C9_Keeps(url, rules) ==
    url.valid /\ \E i \in 1..Len(rules) : C9_RuleKeeps(url, rules[i])

\* C9 (as claimed): for every non-empty rule list, including rules whose
\* prefix trims to the empty string, filterUrls keeps exactly the URLs that
\* some rule keeps under the rule above, in their original order.
C9_FilterKeepsIffSomeRuleMatches ==
    (fPc = "out" /\ Len(fRules) > 0)
        => fOut = SelectSeq(fUrls, LAMBDA u : C9_Keeps(u, fRules))

\* The same statement restricted to rules whose trimmed prefix is non-empty,
\* and the nine-URL example of the claim.
C9_HoldsForNonEmptyPrefixes ==
    (/\ fPc = "out"
     /\ Len(fRules) > 0
     /\ \A i \in 1..Len(fRules) : normalizePath(fRules[i].prefix) # <<>>)
        => fOut = SelectSeq(fUrls, LAMBDA u : C9_Keeps(u, fRules))

C9_NineUrlExample ==
    (fPc = "out" /\ fUrls = NineUrls /\ fRules = NineUrlRules)
        => fOut = SubSeq(NineUrls, 1, 6)

\* ---- C10 ---------------------------------------------------------------
\* C10: filterUrls with an empty rule list returns its input list unchanged
\* (same elements, same order, same multiplicity), malformed URLs included.
C10_EmptyRulesIsIdentity ==
    (fPc = "out" /\ Len(fRules) = 0) => fOut = fUrls

\* A call with no rules has returned on a list that holds a malformed URL
\* and the same URL twice.
C10_Witness ==
    /\ fPc = "out"
    /\ Len(fRules) = 0
    /\ Len(fUrls) >= 3
    /\ \E i \in 1..Len(fUrls) : ~fUrls[i].valid
    /\ \E i, j \in 1..Len(fUrls) : i # j /\ fUrls[i] = fUrls[j] /\ fUrls[i].valid

\* ---- C11 ---------------------------------------------------------------
\* C11: filtering is idempotent: applying filterUrls with the same rules to
\* the list filterUrls returned gives that list back.
C11_FilterIsIdempotent ==
    [][ReapplyFilter => fOut' = fOut]_vars

\* The second application has run on a list the first one had shortened,
\* with rules of which one opts a sub-section in, and it kept something.
C11_Witness ==
    /\ fPc = "again"
    /\ Len(fRules) > 0
    /\ \E i \in 1..Len(fRules) : fRules[i].subs # {}
    /\ Len(fOut) >= 1
    /\ Len(fOut) < Len(fUrls)

\* ---- C12 ---------------------------------------------------------------
RootFetched == smRoot.kind = "response" /\ smRoot.ok

RootFetchFailed == smRoot.kind = "throw" \/ (smRoot.kind = "response" /\ ~smRoot.ok)

\* The concatenated URL list, from the responses received.
C12_Concatenated ==
    IF isSitemapIndex(smRoot.xml) THEN C7_Concatenation ELSE parseSitemapUrls(smRoot.xml)

\* C12: a root sitemap that was fetched but yields an empty concatenated
\* list makes the call fail with "No URLs found in sitemap"; a failed root
\* fetch makes it fail with the HTTP-status or network diagnostic, never
\* with that one; and "No URLs found" is given in no other case.
C12_EmptyAndFetchFailureAreDistinct ==
    /\ (RootFetched /\ smPc \in {"done", "failed"} /\ C12_Concatenated = <<>>)
          => (smPc = "failed" /\ smError = NoUrlsFound)
    /\ RootFetchFailed
          => /\ smPc = "failed"
             /\ smError = (IF smRoot.kind = "throw" THEN "network error"
                           ELSE "HTTP status fetching sitemap")
             /\ smError # NoUrlsFound
    /\ smError = NoUrlsFound
          => (RootFetched /\ smPc = "failed" /\ C12_Concatenated = <<>>)

\* An index of at least two children, one whose fetch failed and one that
\* was fetched but lists no URL, has ended in "No URLs found".
C12_Witness ==
    /\ smPc = "failed"
    /\ smError = NoUrlsFound
    /\ RootIsIndex
    /\ Len(smChildren) >= 2
    /\ \E i, j \in 1..Len(smChildren) : ~ChildSucceeded(i) /\ ChildSucceeded(j)

SlugNext == ApplySlugify

SlugInit ==
    SlugArgs /\ FilterOff /\ SitemapOff /\ FetchOff /\ GitOff /\ TitlesOff /\ GenOff /\ SelectOff /\ HrefOff

SpecSlug == SlugInit /\ [][SlugNext]_vars

\* ---- C21 ---------------------------------------------------------------
C21_WellFormed(slug) ==
    /\ slug # <<>>
    /\ Len(slug) <= SlugMaxLen
    /\ \A i \in 1..Len(slug) : IsSlugChar(slug[i]) \/ slug[i] = "-"
    /\ \A i \in 1..(Len(slug) - 1) : ~(slug[i] = "-" /\ slug[i + 1] = "-")
    /\ slug[1] # "-"

\* C21: for every text the slug is non-empty, at most 100 characters long,
\* made of lowercase letters, digits and single hyphens only, and neither
\* begins nor ends with a hyphen, also when the text was truncated.
C21_SlugIsCanonical ==
    sPc = "out" => C21_WellFormed(sSlug) /\ sSlug[Len(sSlug)] # "-"

\* Everything but the last character is as stated, and a slug ends with a
\* hyphen only when it was cut at the full length.
C21_CanonicalButForCutHyphen ==
    sPc = "out"
        => /\ C21_WellFormed(sSlug)
           /\ sSlug[Len(sSlug)] = "-" => Len(sSlug) = SlugMaxLen
           /\ (\A i \in 1..Len(sText) : ~IsSlugChar(ToLowerChar(sText[i]))) => sSlug = PageSlug

\* A text of more than 100 characters was cut to a canonical slug.
C21_TruncatedWitness ==
    /\ sPc = "out"
    /\ Len(sText) > SlugMaxLen
    /\ Len(sSlug) = SlugMaxLen
    /\ sSlug[Len(sSlug)] # "-"

\* ---- C25 ---------------------------------------------------------------
C25_Fulfilled == {i \in 1..Len(uniqueUrls) : fetchResults[i].status = "fulfilled"}

\* The position in uniqueUrls of the k-th URL that was fetched
C25_Position(k) ==
    CHOOSE i \in C25_Fulfilled : Cardinality({j \in C25_Fulfilled : j < i}) = k - 1

\* C25: the pages named and written are the fetched ones in the order of
\* their URLs in the deduplicated input, whatever order the fetches completed
\* in; names and contents are determined by the input list and the responses.
\* The names are compared when they are assigned and each write when it is
\* made.
C25_OutputFollowsInputOrder ==
    fuPc \in {"writing", "done"}
        => /\ Len(pages) = Cardinality(C25_Fulfilled)
           /\ \A k \in 1..Len(pages) :
                 /\ pages[k] = fetchResults[C25_Position(k)].value
                 /\ pages[k].url = uniqueUrls[C25_Position(k)]
           /\ writes = <<>>
                 => fileNames = fileNamesOf([k \in 1..Len(pages) |->
                                                fetchResults[C25_Position(k)].value.title])
           /\ writes # <<>>
                 => writes[Len(writes)] =
                        [name |-> fileNames[Len(writes)],
                         content |-> markdownOf(fetchResults[C25_Position(Len(writes))].value,
                                                selector)]

\* The names, once assigned, and the writes, once made, stay as they are.
C25_OutputIsNeverRevised ==
    [][/\ fileNames # <<>> => fileNames' = fileNames
       /\ \A k \in 1..Len(writes) : Len(writes') >= k /\ writes'[k] = writes[k]]_vars

\* Three pages were fetched, the last URL's fetch completed before the
\* first URL's, and all three files are written.
C25_Witness ==
    /\ fuPc = "done"
    /\ Len(uniqueUrls) = 3
    /\ Len(pages) = 3
    /\ settleOrder = <<2, 3, 1>>
    /\ pages[1].title # pages[3].title
    /\ Len(writes) = 3

\* ---- C26 ---------------------------------------------------------------
C26_AtMostConcurrencyInFlight == Cardinality(InFlight(pos)) <= concurrency

C26_AllSettledBeforeNaming ==
    (fuPc \in {"writing", "done", "failed"} \/ fileNames # <<>>)
        => \A i \in 1..Len(uniqueUrls) :
              /\ pos[i] = "settled"
              /\ requests[i] # <<>>
              /\ fetchResults[i].status \in {"fulfilled", "rejected"}

C26_EveryUrlSettled == \A i \in 1..Len(uniqueUrls) : pos[i] = "settled"

\* The calls without a selector whose URLs are the first ones of one list:
\* the limiter looks at neither.
FetchLiveInit ==
    /\ FetchInit
    /\ selector = ""
    /\ \E k \in 0..MaxUrls :
          uniqueUrls = Slice(<<FetchUrl("https://example.com/docs/overview", "", FALSE,
                                        "?v=2#section"),
                               FetchUrl("https://example.com/docs/guide", ".html", FALSE, ""),
                               FetchUrl("https://example.com/docs/ref", ".md", FALSE, "")>>,
                             0, IF k <= 3 THEN k ELSE 3)

\* Every request is aborted after 30 seconds at the latest (the
\* AbortSignal.timeout of fetchMarkdown and fetchHtml), so a request in
\* flight eventually ends.
SpecFetchLive ==
    /\ FetchLiveInit
    /\ [][FetchNext]_vars
    /\ WF_vars(\E i \in 1..Len(uniqueUrls) : NegotiatedSettles(i))
    /\ WF_vars(\E i \in 1..Len(uniqueUrls) : HtmlSettles(i))

\* C26: never more than `concurrency` page retrievals are in flight; every
\* URL of the deduplicated input is eventually started and settles; and
\* file names are assigned only when all have settled.
C26_BoundedAndAllSettle ==
    /\ []C26_AtMostConcurrencyInFlight
    /\ []C26_AllSettledBeforeNaming
    /\ <>C26_EveryUrlSettled

\* Three URLs under a limit of two: two retrievals are in flight, the third
\* URL waits in the queue.
C26_Witness ==
    /\ fuPc = "fetching"
    /\ concurrency = 2
    /\ Len(uniqueUrls) = 3
    /\ Cardinality(InFlight(pos)) = 2
    /\ pos[3] = "queued"
    /\ pos[1] = "html"

\* ---- C22 ---------------------------------------------------------------
\* The requested paths that exist in the working tree of a reference.
C22_ExistingPaths(ref) ==
    SelectSeq(normalizedPathsOf(gArgs), LAMBDA p : IsRoot(p) \/ p \in gRemote[ref].present)

C22_Acceptable(ref) ==
    /\ gRemote[ref].fetched
    /\ gRemote[ref].checkedOut
    /\ C22_ExistingPaths(ref) # <<>>

\* C22: the candidates are fetched in list order, one at a time; the call
\* succeeds with the first candidate whose fetch and checkout succeeded and
\* which holds a requested path, with that reference and exactly the
\* requested paths that exist; a candidate checked out without any requested
\* path is rejected and the next one tried; nothing is tried after the
\* accepted one.
C22_FirstAcceptableCandidateWins ==
    /\ Len(gFetched) <= Len(gRefsToTry)
    /\ \A j \in 1..Len(gFetched) : gFetched[j] = gRefsToTry[j]
    /\ \A j \in 1..(Len(gFetched) - 1) : ~C22_Acceptable(gFetched[j])
    /\ (gPc = "trying" /\ gFetched # <<>>) => ~C22_Acceptable(gFetched[Len(gFetched)])
    /\ (gPc = "returned" /\ gResult.ok)
           => /\ gFetched # <<>>
              /\ C22_Acceptable(gFetched[Len(gFetched)])
              /\ gResult.ref = gFetched[Len(gFetched)]
              /\ gResult.checkoutPaths = C22_ExistingPaths(gResult.ref)
    /\ (gPc = "returned" /\ ~gResult.ok /\ gRefsToTry # <<>>)
           => /\ gFetched = gRefsToTry
              /\ \A j \in 1..Len(gFetched) : ~C22_Acceptable(gFetched[j])

\* The first candidate was checked out but holds no requested path, the
\* second is accepted with one of two requested paths, and the third, which
\* would do as well, is never fetched.
C22_Witness ==
    /\ gPc = "returned"
    /\ gResult.ok
    /\ Len(gRefsToTry) = 3
    /\ Len(gFetched) = 2
    /\ gRemote[gFetched[1]].checkedOut
    /\ C22_ExistingPaths(gFetched[1]) = <<>>
    /\ C22_Acceptable(gRefsToTry[3])
    /\ Len(gResult.checkoutPaths) = 1
    /\ Len(gArgs.sourcePaths) = 2

\* ---- C23 ---------------------------------------------------------------
C23_Requested == TrimSpaces(gArgs.ref)

\* C23: a supplied revision is the only reference ever fetched; without one
\* the candidates are the default branch when it was resolved, then main,
\* then master, without duplicates, and no reference is fetched twice.
C23_CandidatesAndNoRepeat ==
    /\ C23_Requested # <<>>
           => /\ Len(gFetched) <= 1
              /\ \A j \in 1..Len(gFetched) : gFetched[j] = C23_Requested
    /\ (C23_Requested = <<>> /\ gRefsToTry # <<>>)
           => gRefsToTry = IF gDefault \in {NoBranch, Main} THEN <<Main, Master>>
                           ELSE IF gDefault = Master THEN <<Master, Main>>
                           ELSE <<gDefault, Main, Master>>
    /\ \A i, j \in 1..Len(gFetched) : i # j => gFetched[i] # gFetched[j]

\* No revision, the remote's default branch is master: master and then main
\* were fetched, each once, and both failed.
C23_Witness ==
    /\ gPc = "returned"
    /\ C23_Requested = <<>>
    /\ gDefault = Master
    /\ gFetched = <<Master, Main>>
    /\ ~gResult.ok

\* A supplied revision failed and nothing else was fetched.
C23_RevisionOnlyWitness ==
    /\ gPc = "returned"
    /\ C23_Requested = ReleaseTag
    /\ gFetched = <<ReleaseTag>>
    /\ ~gResult.ok
    /\ C22_Acceptable(Main)

\* ---- C24 ---------------------------------------------------------------
C24_Paths == normalizedPathsOf(gArgs)

C24_SetupDone == gPc \in {"refs", "trying"} \/ gRefsToTry # <<>>

C24_Normalized ==
    \A i \in 1..Len(C24_Paths) :
        /\ "\\" \notin Range(C24_Paths[i])
        /\ C24_Paths[i] # <<>> => C24_Paths[i][1] # "/" /\ C24_Paths[i][Len(C24_Paths[i])] # "/"

C24_NamesFile(p) == p # <<>> /\ p[Len(p)] = "README.md"

\* One recursive wildcard pattern per directory, one exact pattern per file.
C24_PatternList ==
    /\ gSparse.mode = "no-cone"
    /\ Len(gSparse.set) = Cardinality({i \in 1..Len(C24_Paths) : ~IsRoot(C24_Paths[i])})
    /\ \A i \in 1..Len(C24_Paths) :
          ~IsRoot(C24_Paths[i])
              => \E k \in 1..Len(gSparse.set) :
                    gSparse.set[k] = IF C24_NamesFile(C24_Paths[i])
                                     THEN <<"/">> \o C24_Paths[i]
                                     ELSE <<"/">> \o C24_Paths[i] \o <<"/", "**">>

C24_Cone == gSparse.mode = "cone" /\ gSparse.set = C24_Paths

C24_ByClassification ==
    IF \E i \in 1..Len(C24_Paths) : C24_NamesFile(C24_Paths[i]) THEN C24_PatternList
    ELSE C24_Cone

C24_MixedRootWitness ==
    /\ gPc = "trying"
    /\ C24_Paths = << <<>>, <<"docs">> >>
    /\ gSparse = NoSparse

\* ---- C27 ---------------------------------------------------------------
\* The child fetches that were issued and have not settled
C27_ChildrenInFlight == {i \in 1..Len(smChildren) : smChildResp[i] = NoResponse}

\* The largest limit a limiter of the model is given
C27_Limit == MaxConcurrency

\* C27: while a sitemap index is resolved, the number of child fetches in
\* flight never exceeds the limit, however many children the index lists.
C27_ChildFetchesBounded ==
    smPc = "children" => Cardinality(C27_ChildrenInFlight) <= C27_Limit

\* What the code does: every child of the index is in flight until it settles.
C27_EveryUnsettledChildInFlight ==
    [][(smPc = "root" /\ smPc' = "children")
           => Cardinality(C27_ChildrenInFlight') = Len(smChildren')]_vars

\* ---- C29 ---------------------------------------------------------------
\* C29: a successful resolution returns a non-empty URL list, also when
\* inclusion rules are supplied.
C29_ReturnedListIsNonEmpty == smPc = "done" => smOut # <<>>

\* Without inclusion rules the returned list is never empty, and with them
\* the list they are applied to is not.
C29_NonEmptyBeforeFiltering ==
    smPc = "done" => /\ smAllUrls # <<>>
                     /\ smPaths = <<>> => smOut # <<>>

\* ---- C28 ---------------------------------------------------------------
\* The tasks whose working directory is in use
C28_Working == {i \in 1..Len(dRepos) : dTask[i].at \in {"checkout", "processing", "cleanup"}}

\* C28: every task owns a working directory of its own, and no two tasks of
\* a run remove, create or write the same output directory or index file.
C28_TasksShareNoFiles ==
    /\ \A i, j \in C28_Working : i # j => dTempDir[i] # dTempDir[j]
    /\ \A a, b \in dTouched : a.task # b.task => a.path # b.path

\* What does hold: the working directories are never shared, and an output
\* path is shared only by repos of the same name.
C28_SharedOnlyUnderEqualNames ==
    /\ \A i, j \in C28_Working : i # j => dTempDir[i] # dTempDir[j]
    /\ \A a, b \in dTouched :
          (a.task # b.task /\ a.path = b.path) => dRepos[a.task] = dRepos[b.task]

\* ---- C30 ---------------------------------------------------------------
\* C30: when generateDocs returns its summary, every temporary directory it
\* created has been removed, whatever the outcome of the repo; and while a
\* task checks out into its directory or reads from it, the directory exists.
C30_TempDirsRemovedNotTooEarly ==
    /\ dPc = "returned"
           => /\ dExisting = {}
              /\ \A i \in 1..Len(dRepos) : dTempDir[i] # NoTempDir
    /\ \A i \in 1..Len(dRepos) :
          dTask[i].at \in {"checkout", "processing"} => dTempDir[i] \in dExisting

\* Three repos, two at a time: one failed at the checkout, one in the
\* processing, one succeeded; all three directories are gone at the return.
C30_Witness ==
    /\ dPc = "returned"
    /\ Len(dRepos) = 3
    /\ dConcurrency = 2
    /\ dTask[1].outcome = "failed" /\ dTask[1].error = "Git sparse checkout failed."
    /\ dTask[2].outcome = "failed" /\ dTask[2].error = "ENOENT: scan failed"
    /\ dTask[3].outcome = "succeeded"
    /\ dTempDir[3] = dTempDir[1]
    /\ dExisting = {}

====
